---- MODULE Spec2Model ----
(***************************************************************************)
(* A model of src/arith/iter_affine_map.cc: the affine iteration-map       *)
(* detector (DetectIterMap), its lowering (IterMapSimplify), subspace      *)
(* division (SubspaceDivide) and inversion (InverseAffineIterMap).         *)
(*                                                                         *)
(* Expressions (PrimExpr) are trees of records.  The three canonical node  *)
(* kinds are records too; an IterMark is an entry of the arena `marks` of  *)
(* the rewriter and is named by its index, so that two marks are the same  *)
(* exactly when they are the same object.                                  *)
(***************************************************************************)
EXTENDS Integers, Sequences, FiniteSets, TLC

-----------------------------------------------------------------------------
(* PrimExpr nodes *)

(* With(value, LAMBDA name : body) is body with name bound to value: the    *)
(* local variables of the code                                              *)
With(value, Body(_)) == Body(value)

Imm(n) == [k |-> "int", val |-> n]
Var(x) == [k |-> "var", name |-> x]
Bin(op, a, b) == [k |-> op, a |-> a, b |-> b]
BoolTrue == [k |-> "true"]

IterSplitExpr(source, lower_factor, extent, scale) ==
  [k |-> "split", source |-> source, lower_factor |-> lower_factor,
   extent |-> extent, scale |-> scale]
IterSumExpr(args, base) == [k |-> "sum", args |-> args, base |-> base]

IsImm(e) == e.k = "int"
IsIterMapExpr(e) == e.k \in {"split", "sum"}
is_zero(e) == IsImm(e) /\ e.val = 0
is_one(e) == IsImm(e) /\ e.val = 1

BinaryKinds == {"add", "sub", "mul", "floordiv", "floormod", "div", "min", "max",
                "lt", "le", "gt", "ge", "and"}

Reverse(s) == [x \in 1..Len(s) |-> s[Len(s) + 1 - x]]
MinOf(S) == CHOOSE x \in S : \A y \in S : x <= y
Last(s) == s[Len(s)]

(* floor and truncating division of integers; b # 0 *)
FloorDivInt(a, b) == a \div b
FloorModInt(a, b) == a - b * (a \div b)
AbsInt(a) == IF a < 0 THEN -a ELSE a
TruncDivInt(a, b) ==
  With(AbsInt(a) \div AbsInt(b), LAMBDA q :
     IF (a < 0) = (b < 0) THEN q ELSE -q)

(* The PrimExpr operators of tir/op.h fold constants (arith/const_fold.h).  *)
(* A division whose divisor is the constant 0 is never built by these: the  *)
(* callers below test DivByZero first.                                      *)
TryConstFold(op, a, b) ==
  CASE op = "add" ->
         IF IsImm(a) /\ IsImm(b) THEN <<Imm(a.val + b.val)>>
         ELSE IF is_zero(a) THEN <<b>>
         ELSE IF is_zero(b) THEN <<a>> ELSE <<>>
    [] op = "sub" ->
         IF IsImm(a) /\ IsImm(b) THEN <<Imm(a.val - b.val)>>
         ELSE IF is_zero(b) THEN <<a>> ELSE <<>>
    [] op = "mul" ->
         IF IsImm(a) /\ IsImm(b) THEN <<Imm(a.val * b.val)>>
         ELSE IF is_one(a) THEN <<b>>
         ELSE IF is_zero(a) THEN <<a>>
         ELSE IF is_one(b) THEN <<a>>
         ELSE IF is_zero(b) THEN <<b>> ELSE <<>>
    [] op = "floordiv" ->
         IF IsImm(a) /\ IsImm(b) THEN <<Imm(FloorDivInt(a.val, b.val))>>
         ELSE IF is_zero(a) THEN <<a>>
         ELSE IF is_one(b) THEN <<a>> ELSE <<>>
    [] op = "floormod" ->
         IF IsImm(a) /\ IsImm(b) THEN <<Imm(FloorModInt(a.val, b.val))>>
         ELSE IF is_zero(a) THEN <<a>>
         ELSE IF is_one(b) THEN <<Imm(0)>> ELSE <<>>
    [] op = "div" ->
         IF IsImm(a) /\ IsImm(b) THEN <<Imm(TruncDivInt(a.val, b.val))>>
         ELSE IF is_zero(a) THEN <<a>>
         ELSE IF is_one(b) THEN <<a>> ELSE <<>>
    [] op = "min" ->
         IF IsImm(a) /\ IsImm(b) THEN <<Imm(IF a.val < b.val THEN a.val ELSE b.val)>>
         ELSE <<>>
    [] op = "max" ->
         IF IsImm(a) /\ IsImm(b) THEN <<Imm(IF a.val > b.val THEN a.val ELSE b.val)>>
         ELSE <<>>
    [] OTHER -> <<>>

(* ICHECK_NE(pb->value, 0) << "Divide by zero" of the folding of a division *)
DivByZero(b) == IsImm(b) /\ b.val = 0

PrimOp(op, a, b) ==
  With(TryConstFold(op, a, b), LAMBDA f :
     IF f # <<>> THEN f[1] ELSE Bin(op, a, b))

(* Analyzer::CanProveEqual: constants by value, other expressions when they *)
(* are the same expression.                                                 *)
CanProveEqual(a, b) == a = b

-----------------------------------------------------------------------------
(* The rewriter (class IterMapRewriter).  Its members are the fields of a   *)
(* record rw: marks (the arena of IterMark objects), var_map_,              *)
(* input_marks_, sum_fuse_map_, flattened_map_,                             *)
(* constrained_iters_flattened_, unresolved_count_, and aborted (an ICHECK  *)
(* or a division by zero ended the call).                                   *)

IterMark(source, extent) == [source |-> source, extent |-> extent]

(* IterSplitExpr(IterMark source) and IterSplitExpr(IterMark source, scale) *)
SplitOfMark(marks, m, scale) == IterSplitExpr(m, Imm(1), marks[m].extent, scale)

(* a variant of MapPut that keeps the value already stored under the key *)
MapInsert(map, key, val) == [x \in (DOMAIN map) \cup {key} |-> IF x \in DOMAIN map THEN map[x] ELSE val]
MapPut(map, key, val) == [x \in (DOMAIN map) \cup {key} |-> IF x = key THEN val ELSE map[x]]
MapErase(map, key) == [x \in (DOMAIN map) \ {key} |-> map[x]]
EmptyMap == [x \in {} |-> 0]

Fail(rw) == [rw EXCEPT !.unresolved_count_ = @ + 1]
Abort(rw) == [rw EXCEPT !.aborted = TRUE]

IterSplitEqual(lhs, rhs, check_scale) ==
  /\ lhs.source = rhs.source
  /\ lhs.lower_factor = rhs.lower_factor
  /\ (check_scale => lhs.scale = rhs.scale)
  /\ lhs.extent = rhs.extent

ToIterSumExpr(expr) ==
  IF expr.k = "sum" THEN expr
  ELSE IF expr.k = "split" THEN IterSumExpr(<<expr>>, Imm(0))
  ELSE IterSumExpr(<<>>, expr)

(* clhs->value % crhs->value with crhs->value = 0 *)
DivisibleUB(lhs, rhs) == IsImm(lhs) /\ IsImm(rhs) /\ rhs.val = 0

CanProveDivisible(lhs, rhs) ==
  IF IsImm(lhs) /\ IsImm(rhs) THEN FloorModInt(lhs.val, rhs.val) = 0
  ELSE CanProveEqual(lhs, rhs)

(* step0 of TryFuseIters: the index of the first arg with the smallest      *)
(* integer scale, 0 when no arg has an integer scale                        *)
BaseIndex(args) ==
  With({x \in 1..Len(args) : IsImm(args[x].scale)}, LAMBDA C :
     IF C = {} THEN 0
     ELSE CHOOSE x \in C : \A y \in C :
            \/ args[x].scale.val < args[y].scale.val
            \/ (args[x].scale.val = args[y].scale.val /\ x <= y))

(* the longest constrained iter whose innermost split is arg; 0 when none   *)
ConstraintToMatch(constrained, arg) ==
  With({c \in 1..Len(constrained) : IterSplitEqual(arg, Last(constrained[c].args), FALSE)}, LAMBDA C :
     IF C = {} THEN 0
     ELSE CHOOSE c \in C : \A d \in C :
            \/ Len(constrained[c].args) > Len(constrained[d].args)
            \/ (Len(constrained[c].args) = Len(constrained[d].args) /\ c <= d))

(* the loop over the splits of the matched constraint, innermost first: p   *)
(* is the position in constraint.args, st the state of the fuse loop        *)
RECURSIVE MatchConstraint(_, _, _, _)
MatchConstraint(args, cargs, p, st) ==
  IF p = 0 THEN st
  ELSE
    With(
             {x \in 1..Len(args) :
                /\ x \notin st.visited
                /\ IterSplitEqual(args[x], cargs[p], FALSE)
                /\ CanProveEqual(PrimOp("mul", cargs[p].scale, st.expected_scale), args[x].scale)},
    LAMBDA K :
       IF K = {} THEN [st EXCEPT !.status = "fail"]
       ELSE MatchConstraint(args, cargs, p - 1,
              [st EXCEPT !.visited = @ \cup {MinOf(K)},
                         !.flattened_iters = Append(@, args[MinOf(K)])]))

RECURSIVE FuseLoop(_, _, _, _)
FuseLoop(args, rw, base_index, st) ==
  IF st.status # "run" \/ st.i >= Len(args) THEN st
  ELSE
    With(
             {x \in (IF st.i = 0 THEN base_index ELSE 1)..Len(args) :
                x \notin st.visited /\ CanProveEqual(args[x].scale, st.expected_scale)},
    LAMBDA J :
       IF J = {} THEN [st EXCEPT !.status = "fail"]
       ELSE
         With(MinOf(J), LAMBDA j :
         With(ConstraintToMatch(rw.constrained_iters_flattened_, args[j]), LAMBDA c :
            IF c # 0 THEN
              With(rw.constrained_iters_flattened_[c], LAMBDA constraint :
              With(MatchConstraint(args, constraint.args, Len(constraint.args), st), LAMBDA m :
                 IF m.status # "run" THEN m
                 ELSE IF constraint \notin DOMAIN rw.sum_fuse_map_
                   THEN [m EXCEPT !.status = "abort"]
                 ELSE
                   With(rw.sum_fuse_map_[constraint], LAMBDA iter_matched :
                      FuseLoop(args, rw, base_index,
                        [m EXCEPT
                           !.grouped_iters =
                              Append(@, SplitOfMark(rw.marks, iter_matched.mark, st.expected_scale)),
                           !.expected_extra_base =
                              PrimOp("add", @, PrimOp("mul", iter_matched.offset, st.expected_scale)),
                           !.expected_scale =
                              PrimOp("mul", @, rw.marks[iter_matched.mark].extent),
                           !.i = @ + Len(constraint.args)]))))
            ELSE
              FuseLoop(args, rw, base_index,
                [st EXCEPT !.visited = @ \cup {j},
                           !.flattened_iters = Append(@, args[j]),
                           !.grouped_iters = Append(@, args[j]),
                           !.expected_scale = PrimOp("mul", @, args[j].extent),
                           !.i = @ + 1]))))

(* TryFuseIters without the lookup of the flattened form: every call mints *)
(* a mark                                                                   *)
TryFuseItersAlwaysMinting(expr, rw) ==
  With(BaseIndex(expr.args), LAMBDA base_index :
     IF base_index = 0 THEN [ok |-> FALSE, val |-> expr, rw |-> rw]
     ELSE
       With(expr.args[base_index].scale, LAMBDA base_scale :
       With(
                 FuseLoop(expr.args, rw, base_index,
                   [i |-> 0, visited |-> {}, flattened_iters |-> <<>>,
                    grouped_iters |-> <<>>, expected_extra_base |-> Imm(0),
                    expected_scale |-> base_scale, status |-> "run"]),
       LAMBDA st :
       With(IterSumExpr(Reverse(st.grouped_iters), Imm(0)), LAMBDA structured_form :
       With(IterSumExpr(Reverse(st.flattened_iters), Imm(0)), LAMBDA flattened_form :
       With(PrimOp("add", expr.base, st.expected_extra_base), LAMBDA base :
          IF st.status = "abort" THEN [ok |-> FALSE, val |-> expr, rw |-> Abort(rw)]
          ELSE IF st.status = "fail" THEN [ok |-> FALSE, val |-> expr, rw |-> rw]
          ELSE IF DivByZero(base_scale) THEN [ok |-> FALSE, val |-> expr, rw |-> Abort(rw)]
          ELSE
            With(IterMark(structured_form, PrimOp("div", st.expected_scale, base_scale)), LAMBDA mark :
            With(Append(rw.marks, mark), LAMBDA marks :
            With(Len(marks), LAMBDA m :
               [ok |-> TRUE,
                val |-> IterSumExpr(<<SplitOfMark(marks, m, base_scale)>>, base),
                rw |-> [rw EXCEPT
                          !.marks = marks,
                          !.sum_fuse_map_ =
                             MapPut(@, flattened_form, [mark |-> m, offset |-> Imm(0)]),
                          !.flattened_map_ = MapPut(@, structured_form, flattened_form)]])))))))))

(* Optional<IterSumExpr> TryFuseIters(IterSumExpr expr): ok is FALSE for    *)
(* NullOpt; rw carries the new mark and the two map entries of a miss       *)
TryFuseIters(expr, rw) ==
  With(BaseIndex(expr.args), LAMBDA base_index :
     IF base_index = 0 THEN [ok |-> FALSE, val |-> expr, rw |-> rw]
     ELSE
       With(expr.args[base_index].scale, LAMBDA base_scale :
       With(
                 FuseLoop(expr.args, rw, base_index,
                   [i |-> 0, visited |-> {}, flattened_iters |-> <<>>,
                    grouped_iters |-> <<>>, expected_extra_base |-> Imm(0),
                    expected_scale |-> base_scale, status |-> "run"]),
       LAMBDA st :
       With(IterSumExpr(Reverse(st.grouped_iters), Imm(0)), LAMBDA structured_form :
       With(IterSumExpr(Reverse(st.flattened_iters), Imm(0)), LAMBDA flattened_form :
       With(PrimOp("add", expr.base, st.expected_extra_base), LAMBDA base :
          IF st.status = "abort" THEN [ok |-> FALSE, val |-> expr, rw |-> Abort(rw)]
          ELSE IF st.status = "fail" THEN [ok |-> FALSE, val |-> expr, rw |-> rw]
          ELSE IF flattened_form \in DOMAIN rw.sum_fuse_map_ THEN
            With(rw.sum_fuse_map_[flattened_form], LAMBDA it :
               IF ~CanProveEqual(st.expected_extra_base, PrimOp("mul", it.offset, base_scale))
                 THEN [ok |-> FALSE, val |-> expr, rw |-> rw]
                 ELSE [ok |-> TRUE,
                       val |-> IterSumExpr(<<SplitOfMark(rw.marks, it.mark, base_scale)>>, base),
                       rw |-> rw])
          ELSE IF DivByZero(base_scale) THEN [ok |-> FALSE, val |-> expr, rw |-> Abort(rw)]
          ELSE
            With(IterMark(structured_form, PrimOp("div", st.expected_scale, base_scale)), LAMBDA mark :
            With(Append(rw.marks, mark), LAMBDA marks :
            With(Len(marks), LAMBDA m :
               [ok |-> TRUE,
                val |-> IterSumExpr(<<SplitOfMark(marks, m, base_scale)>>, base),
                rw |-> [rw EXCEPT
                          !.marks = marks,
                          !.sum_fuse_map_ =
                             MapPut(@, flattened_form, [mark |-> m, offset |-> Imm(0)]),
                          !.flattened_map_ = MapPut(@, structured_form, flattened_form)]])))))))))

-----------------------------------------------------------------------------
(* AddToLhs, MulToLhs and the split of a floordiv / floormod by a constant  *)

AddSplitToLhs(lhs, rhs, sign) ==
  With(
           {x \in 1..Len(lhs.args) :
              /\ lhs.args[x].source = rhs.source
              /\ lhs.args[x].lower_factor = rhs.lower_factor
              /\ lhs.args[x].extent = rhs.extent},
  LAMBDA M :
     IF M # {} THEN
       [lhs EXCEPT !.args[MinOf(M)] =
          [rhs EXCEPT !.scale = PrimOp(IF sign > 0 THEN "add" ELSE "sub",
                                       lhs.args[MinOf(M)].scale, rhs.scale)]]
     ELSE IF sign > 0 THEN [lhs EXCEPT !.args = Append(@, rhs)]
     ELSE [lhs EXCEPT !.args = Append(@, [rhs EXCEPT !.scale = PrimOp("sub", Imm(0), @)])])

RECURSIVE AddArgsToLhs(_, _, _, _)
AddArgsToLhs(lhs, args, p, sign) ==
  IF p > Len(args) THEN lhs
  ELSE AddArgsToLhs(AddSplitToLhs(lhs, args[p], sign), args, p + 1, sign)

AddSumToLhs(lhs, rhs, sign) ==
  [AddArgsToLhs(lhs, rhs.args, 1, sign) EXCEPT
     !.base = PrimOp(IF sign > 0 THEN "add" ELSE "sub", @, rhs.base)]

AddToLhs(lhs, rhs, sign) ==
  IF rhs.k = "sum" THEN AddSumToLhs(lhs, rhs, sign) ELSE AddSplitToLhs(lhs, rhs, sign)

MulToLhs(lhs, rhs) ==
  [lhs EXCEPT
     !.args = [x \in 1..Len(lhs.args) |->
                 [lhs.args[x] EXCEPT !.scale = PrimOp("mul", @, rhs)]],
     !.base = PrimOp("mul", @, rhs)]

SplitFloorDivConst(lhs, rhs, orig, rw) ==
  IF is_one(rhs) THEN [val |-> lhs, rw |-> rw]
  ELSE IF ~is_one(lhs.scale) /\ DivisibleUB(lhs.scale, rhs)
    THEN [val |-> orig, rw |-> Abort(rw)]
  ELSE IF ~is_one(lhs.scale) /\ CanProveDivisible(lhs.scale, rhs)
    THEN [val |-> [lhs EXCEPT !.scale = PrimOp("floordiv", @, rhs)], rw |-> rw]
  ELSE IF ~is_one(lhs.scale) /\ DivisibleUB(rhs, lhs.scale)
    THEN [val |-> orig, rw |-> Abort(rw)]
  ELSE IF ~is_one(lhs.scale) /\ ~CanProveDivisible(rhs, lhs.scale)
    THEN [val |-> orig, rw |-> Fail(rw)]
  ELSE
    With(IF is_one(lhs.scale) THEN rhs ELSE PrimOp("floordiv", rhs, lhs.scale), LAMBDA rhs2 :
       IF DivisibleUB(lhs.extent, rhs2) THEN [val |-> orig, rw |-> Abort(rw)]
       ELSE IF CanProveDivisible(lhs.extent, rhs2) THEN
         [val |-> [lhs EXCEPT !.scale = Imm(1),
                              !.lower_factor = PrimOp("mul", @, rhs2),
                              !.extent = PrimOp("floordiv", @, rhs2)],
          rw |-> rw]
       ELSE [val |-> orig, rw |-> Fail(rw)])

(* SplitFloorModConst that sets the scale to 1, as SplitFloorDivConst does *)
SplitFloorModConstDroppingScale(lhs, rhs, orig, rw) ==
  IF is_one(rhs) THEN [val |-> Imm(0), rw |-> rw]
  ELSE IF ~is_one(lhs.scale) /\ DivisibleUB(lhs.scale, rhs)
    THEN [val |-> orig, rw |-> Abort(rw)]
  ELSE IF ~is_one(lhs.scale) /\ CanProveDivisible(lhs.scale, rhs)
    THEN [val |-> Imm(0), rw |-> rw]
  ELSE IF ~is_one(lhs.scale) /\ DivisibleUB(rhs, lhs.scale)
    THEN [val |-> orig, rw |-> Abort(rw)]
  ELSE IF ~is_one(lhs.scale) /\ ~CanProveDivisible(rhs, lhs.scale)
    THEN [val |-> orig, rw |-> Fail(rw)]
  ELSE
    With(IF is_one(lhs.scale) THEN rhs ELSE PrimOp("floordiv", rhs, lhs.scale), LAMBDA rhs2 :
       IF DivisibleUB(lhs.extent, rhs2) THEN [val |-> orig, rw |-> Abort(rw)]
       ELSE IF CanProveDivisible(lhs.extent, rhs2)
         THEN [val |-> [lhs EXCEPT !.extent = rhs2, !.scale = Imm(1)], rw |-> rw]
       ELSE [val |-> orig, rw |-> Fail(rw)])

SplitFloorModConst(lhs, rhs, orig, rw) ==
  IF is_one(rhs) THEN [val |-> Imm(0), rw |-> rw]
  ELSE IF ~is_one(lhs.scale) /\ DivisibleUB(lhs.scale, rhs)
    THEN [val |-> orig, rw |-> Abort(rw)]
  ELSE IF ~is_one(lhs.scale) /\ CanProveDivisible(lhs.scale, rhs)
    THEN [val |-> Imm(0), rw |-> rw]
  ELSE IF ~is_one(lhs.scale) /\ DivisibleUB(rhs, lhs.scale)
    THEN [val |-> orig, rw |-> Abort(rw)]
  ELSE IF ~is_one(lhs.scale) /\ ~CanProveDivisible(rhs, lhs.scale)
    THEN [val |-> orig, rw |-> Fail(rw)]
  ELSE
    With(IF is_one(lhs.scale) THEN rhs ELSE PrimOp("floordiv", rhs, lhs.scale), LAMBDA rhs2 :
       IF DivisibleUB(lhs.extent, rhs2) THEN [val |-> orig, rw |-> Abort(rw)]
       ELSE IF CanProveDivisible(lhs.extent, rhs2)
         THEN [val |-> [lhs EXCEPT !.extent = rhs2], rw |-> rw]
       ELSE [val |-> orig, rw |-> Fail(rw)])

(* the part of VisitExpr_(FloorDivNode) and VisitExpr_(FloorModNode) that   *)
(* follows the rewriting of the operands a and b                            *)
VisitDivMod(kind, orig, a, b, rw) ==
  IF DivByZero(b) THEN [val |-> orig, rw |-> Abort(rw)]
  ELSE IF TryConstFold(kind, a, b) # <<>> THEN [val |-> TryConstFold(kind, a, b)[1], rw |-> rw]
  ELSE IF ~IsIterMapExpr(a) /\ ~IsIterMapExpr(b) THEN [val |-> Bin(kind, a, b), rw |-> rw]
  ELSE IF IsIterMapExpr(b) THEN [val |-> orig, rw |-> Fail(rw)]
  ELSE IF a.k = "sum" THEN
    With(TryFuseIters(a, rw), LAMBDA opt :
       IF opt.rw.aborted THEN [val |-> orig, rw |-> opt.rw]
       ELSE IF ~opt.ok THEN [val |-> orig, rw |-> Fail(opt.rw)]
       ELSE IF ~is_zero(opt.val.base) THEN [val |-> orig, rw |-> Fail(opt.rw)]
       ELSE IF kind = "floordiv" THEN SplitFloorDivConst(opt.val.args[1], b, orig, opt.rw)
       ELSE SplitFloorModConst(opt.val.args[1], b, orig, opt.rw))
  ELSE IF kind = "floordiv" THEN SplitFloorDivConst(a, b, orig, rw)
  ELSE SplitFloorModConst(a, b, orig, rw)

VisitAddSub(kind, a, b, rw) ==
  IF TryConstFold(kind, a, b) # <<>> THEN [val |-> TryConstFold(kind, a, b)[1], rw |-> rw]
  ELSE IF ~IsIterMapExpr(a) /\ ~IsIterMapExpr(b) THEN [val |-> Bin(kind, a, b), rw |-> rw]
  ELSE IF ~IsIterMapExpr(b) THEN
    [val |-> [ToIterSumExpr(a) EXCEPT !.base = PrimOp(kind, @, b)], rw |-> rw]
  ELSE [val |-> AddToLhs(ToIterSumExpr(a), b, IF kind = "add" THEN 1 ELSE -1), rw |-> rw]

(* VisitExpr_(MulNode) that does not reject the product of two iterators *)
VisitMulOfIterators(orig, a, b, rw) ==
  IF TryConstFold("mul", a, b) # <<>> THEN [val |-> TryConstFold("mul", a, b)[1], rw |-> rw]
  ELSE IF ~IsIterMapExpr(a) /\ ~IsIterMapExpr(b) THEN [val |-> Bin("mul", a, b), rw |-> rw]
  ELSE IF IsIterMapExpr(a) /\ IsIterMapExpr(b) THEN [val |-> a, rw |-> rw]
  ELSE
    With(IF IsIterMapExpr(a) THEN a ELSE b, LAMBDA x :
    With(IF IsIterMapExpr(a) THEN b ELSE a, LAMBDA c :
       IF x.k = "sum" THEN [val |-> MulToLhs(x, c), rw |-> rw]
       ELSE [val |-> [x EXCEPT !.scale = PrimOp("mul", @, c)], rw |-> rw]))

VisitMul(orig, a, b, rw) ==
  IF TryConstFold("mul", a, b) # <<>> THEN [val |-> TryConstFold("mul", a, b)[1], rw |-> rw]
  ELSE IF ~IsIterMapExpr(a) /\ ~IsIterMapExpr(b) THEN [val |-> Bin("mul", a, b), rw |-> rw]
  ELSE IF IsIterMapExpr(a) /\ IsIterMapExpr(b) THEN [val |-> orig, rw |-> Fail(rw)]
  ELSE
    With(IF IsIterMapExpr(a) THEN a ELSE b, LAMBDA x :
    With(IF IsIterMapExpr(a) THEN b ELSE a, LAMBDA c :
       IF x.k = "sum" THEN [val |-> MulToLhs(x, c), rw |-> rw]
       ELSE [val |-> [x EXCEPT !.scale = PrimOp("mul", @, c)], rw |-> rw]))

(* DirectMutate: ExprMutator::VisitExpr with the VisitExpr_ overrides of    *)
(* the rewriter, for expressions of index type                              *)
RECURSIVE DirectMutate(_, _)
DirectMutate(expr, rw) ==
  IF rw.aborted THEN [val |-> expr, rw |-> rw]
  ELSE IF expr.k = "var" THEN
    [val |-> IF expr.name \in DOMAIN rw.var_map_ THEN rw.var_map_[expr.name] ELSE expr,
     rw |-> rw]
  ELSE IF expr.k \in {"add", "sub", "mul", "floordiv", "floormod"} THEN
    With(DirectMutate(expr.a, rw), LAMBDA ra :
    With(DirectMutate(expr.b, ra.rw), LAMBDA rb :
       IF rb.rw.aborted THEN [val |-> expr, rw |-> rb.rw]
       ELSE IF expr.k \in {"add", "sub"} THEN VisitAddSub(expr.k, ra.val, rb.val, rb.rw)
       ELSE IF expr.k = "mul" THEN VisitMul(expr, ra.val, rb.val, rb.rw)
       ELSE VisitDivMod(expr.k, expr, ra.val, rb.val, rb.rw)))
  ELSE [val |-> expr, rw |-> rw]

(* a variant of NormalizeToIterWithOffset that returns the sum without fusing *)
NormalizeToIterWithOffsetUnfused(expr, rw) == [val |-> expr, rw |-> rw]

NormalizeToIterWithOffset(expr, rw) ==
  IF rw.aborted \/ Len(expr.args) < 1 THEN [val |-> expr, rw |-> rw]
  ELSE
    With(TryFuseIters(expr, rw), LAMBDA opt :
       IF opt.rw.aborted THEN [val |-> expr, rw |-> opt.rw]
       ELSE IF opt.ok THEN [val |-> opt.val, rw |-> opt.rw]
       ELSE [val |-> expr, rw |-> Fail(opt.rw)])

Rewrite(expr, rw) ==
  With(DirectMutate(expr, rw), LAMBDA r :
     NormalizeToIterWithOffset(ToIterSumExpr(r.val), r.rw))

Undefined == [k |-> "undefined"]
defined(e) == e.k # "undefined"

NormalizeToIterOnBoundExpr(expr0, min0, max0, rw) ==
  With(expr0.base, LAMBDA base :
  With(IF is_zero(base) THEN expr0 ELSE [expr0 EXCEPT !.base = Imm(0)], LAMBDA expr :
  With(IF ~is_zero(base) /\ defined(min0) THEN PrimOp("sub", min0, base) ELSE min0, LAMBDA predicate_induced_min :
  With(IF ~is_zero(base) /\ defined(max0) THEN PrimOp("sub", max0, base) ELSE max0, LAMBDA predicate_induced_max :
     IF rw.aborted \/ Len(expr.args) < 1 THEN [val |-> expr, rw |-> rw]
     ELSE
       With(TryFuseIters(expr, rw), LAMBDA opt :
          IF opt.rw.aborted THEN [val |-> expr, rw |-> opt.rw]
          ELSE IF opt.ok /\ is_one(opt.val.args[1].scale) THEN
            With(opt.val.args[1], LAMBDA split :
            With(opt.rw.marks[split.source].source, LAMBDA structured_form :
               IF structured_form \notin DOMAIN opt.rw.flattened_map_
                 THEN [val |-> expr, rw |-> Abort(opt.rw)]
               ELSE
                 With(opt.rw.flattened_map_[structured_form], LAMBDA flattened_form :
                    IF flattened_form \notin DOMAIN opt.rw.sum_fuse_map_
                      THEN [val |-> expr, rw |-> Abort(opt.rw)]
                    ELSE
                      With(opt.rw.sum_fuse_map_[flattened_form], LAMBDA it_mark :
                      With(it_mark.offset, LAMBDA mark_offset :
                      With(
                                      IF defined(predicate_induced_min)
                                        THEN PrimOp("max", predicate_induced_min, mark_offset)
                                        ELSE mark_offset,
                      LAMBDA iter_min :
                      With(PrimOp("add", mark_offset, opt.rw.marks[it_mark.mark].extent), LAMBDA iter_max0 :
                      With(
                                      IF defined(predicate_induced_max)
                                        THEN PrimOp("min", predicate_induced_max, iter_max0)
                                        ELSE iter_max0,
                      LAMBDA iter_max :
                      With(
                                            [structured_form EXCEPT
                                               !.base = PrimOp("sub", Imm(0), iter_min)],
                      LAMBDA new_structured :
                      With(
                                  IterMark(IF is_zero(iter_min) THEN opt.rw.marks[it_mark.mark].source
                                                                ELSE new_structured,
                                           PrimOp("sub", iter_max, iter_min)),
                      LAMBDA mark :
                      With(Append(opt.rw.marks, mark), LAMBDA marks :
                         [val |-> IterSumExpr(<<split>>, PrimOp("add", base, iter_min)),
                          rw |-> [opt.rw EXCEPT
                                    !.marks = marks,
                                    !.flattened_map_ =
                                       IF is_zero(iter_min) THEN @
                                       ELSE MapPut(MapErase(@, structured_form),
                                                   new_structured, flattened_form),
                                    !.sum_fuse_map_ =
                                       MapPut(@, flattened_form,
                                              [mark |-> Len(marks), offset |-> iter_min]),
                                    !.constrained_iters_flattened_ = Append(@, flattened_form)]])))))))))))
          ELSE [val |-> expr, rw |-> Fail(opt.rw)])))))

(* a variant of RewriteIterConstraint that drops the bounds of the predicate *)
RewriteIterConstraintUnbounded(expr, predicate_induced_min, predicate_induced_max, rw) ==
  With(DirectMutate(expr, rw), LAMBDA r :
     NormalizeToIterOnBoundExpr(ToIterSumExpr(r.val), Undefined, Undefined, r.rw))

RewriteIterConstraint(expr, predicate_induced_min, predicate_induced_max, rw) ==
  With(DirectMutate(expr, rw), LAMBDA r :
     NormalizeToIterOnBoundExpr(ToIterSumExpr(r.val), predicate_induced_min,
                                predicate_induced_max, r.rw))

-----------------------------------------------------------------------------
(* IterMarkSplitCollector: c.visited_ is a set of marks, c.mark2splits_ a   *)
(* map from a mark to the list of the splits that reference it              *)

PushSplit(c, split) ==
  [c EXCEPT !.mark2splits_ =
     MapPut(@, split.source,
            IF split.source \in DOMAIN @ THEN Append(@[split.source], split) ELSE <<split>>)]

RECURSIVE CollectInternal(_, _, _)
RECURSIVE CollectArgs(_, _, _, _)
CollectInternal(marks, c, mark) ==
  IF mark \in c.visited_ THEN c
  ELSE
    With([c EXCEPT !.visited_ = @ \cup {mark}], LAMBDA c1 :
       IF marks[mark].source.k = "sum"
         THEN CollectArgs(marks, c1, marks[mark].source.args, 1)
         ELSE c1)

CollectArgs(marks, c, args, p) ==
  IF p > Len(args) THEN c
  ELSE CollectArgs(marks, PushSplit(CollectInternal(marks, c, args[p].source), args[p]),
                   args, p + 1)

RECURSIVE Collect(_, _, _, _)
Collect(marks, c, indices_, p) ==
  IF p > Len(indices_) THEN c
  ELSE Collect(marks, CollectArgs(marks, c, indices_[p].args, 1), indices_, p + 1)

EmptyCollector == [visited_ |-> {}, mark2splits_ |-> EmptyMap]

(* SearchSkipLowerFactor: 0 for "not found", -1 when a divisibility test    *)
(* divides by the constant 0                                                *)
RECURSIVE SearchSkipLowerFactor(_, _, _, _, _)
SearchSkipLowerFactor(splits, used, expected_lower_factor, p, res) ==
  IF p > Len(splits) THEN res
  ELSE IF p \in used THEN SearchSkipLowerFactor(splits, used, expected_lower_factor, p + 1, res)
  ELSE IF DivisibleUB(splits[p].lower_factor, expected_lower_factor) THEN -1
  ELSE IF ~CanProveDivisible(splits[p].lower_factor, expected_lower_factor) THEN 0
  ELSE IF res = 0 THEN SearchSkipLowerFactor(splits, used, expected_lower_factor, p + 1, p)
  ELSE IF DivisibleUB(splits[res].lower_factor, splits[p].lower_factor) THEN -1
  ELSE IF CanProveDivisible(splits[res].lower_factor, splits[p].lower_factor)
    THEN SearchSkipLowerFactor(splits, used, expected_lower_factor, p + 1, p)
  ELSE SearchSkipLowerFactor(splits, used, expected_lower_factor, p + 1, res)

(* the loop of TryNormalizeSplits; st.status is "run", "fail" or "abort"    *)
RECURSIVE NormalizeLoop(_, _, _, _)
NormalizeLoop(splits, require_bijective_, n, st) ==
  IF st.status # "run" \/ n = 0 THEN st
  ELSE
    With(
             {x \in 1..Len(splits) :
                x \notin st.used /\ CanProveEqual(splits[x].lower_factor, st.expected_lower_factor)},
    LAMBDA J :
    With(
             IF J # {} THEN MinOf(J)
             ELSE IF require_bijective_ THEN 0
             ELSE SearchSkipLowerFactor(splits, st.used, st.expected_lower_factor, 1, 0),
    LAMBDA j :
       IF j = 0 THEN [st EXCEPT !.status = "fail"]
       ELSE IF j = -1 THEN [st EXCEPT !.status = "abort"]
       ELSE NormalizeLoop(splits, require_bijective_, n - 1,
              [st EXCEPT !.used = @ \cup {j},
                         !.iters = Append(@, splits[j]),
                         !.expected_lower_factor =
                            PrimOp("mul", splits[j].lower_factor, splits[j].extent)])))

(* a variant of TryNormalizeSplits that accepts the splits as they are      *)
TryNormalizeSplitsUnchecked(mark, splits, require_bijective_) ==
  [status |-> "ok", iters |-> Reverse(splits)]

(* a variant of TryNormalizeSplits that applies the rules of the surjective *)
(* mode whatever require_bijective is                                       *)
TryNormalizeSplitsSurjective(mark, splits, require_bijective_) ==
  With(
            NormalizeLoop(splits, FALSE, Len(splits),
              [used |-> {}, iters |-> <<>>, expected_lower_factor |-> Imm(1), status |-> "run"]),
  LAMBDA st :
     IF st.status # "run" THEN [status |-> st.status, iters |-> <<>>]
     ELSE IF DivisibleUB(mark.extent, st.expected_lower_factor)
       THEN [status |-> "abort", iters |-> <<>>]
     ELSE IF CanProveDivisible(mark.extent, st.expected_lower_factor) /\ st.iters # <<>>
       THEN [status |-> "ok", iters |-> Reverse(st.iters)]
     ELSE [status |-> "fail", iters |-> <<>>])

(* TryNormalizeSplits: status "ok" with the splits from outermost to        *)
(* innermost, "fail" for the empty array, "abort" for a division by zero    *)
TryNormalizeSplits(mark, splits, require_bijective_) ==
  With(
            NormalizeLoop(splits, require_bijective_, Len(splits),
              [used |-> {}, iters |-> <<>>, expected_lower_factor |-> Imm(1), status |-> "run"]),
  LAMBDA st :
     IF st.status # "run" THEN [status |-> st.status, iters |-> <<>>]
     ELSE IF require_bijective_ THEN
       IF CanProveEqual(st.expected_lower_factor, mark.extent) /\ st.iters # <<>>
         THEN [status |-> "ok", iters |-> Reverse(st.iters)]
         ELSE [status |-> "fail", iters |-> <<>>]
     ELSE IF DivisibleUB(mark.extent, st.expected_lower_factor)
       THEN [status |-> "abort", iters |-> <<>>]
     ELSE IF CanProveDivisible(mark.extent, st.expected_lower_factor) /\ st.iters # <<>>
       THEN [status |-> "ok", iters |-> Reverse(st.iters)]
     ELSE [status |-> "fail", iters |-> <<>>])

(* a variant of CheckMapping without the test that every input mark was     *)
(* visited                                                                  *)
CheckMappingOfVisited(rw, bindings, require_bijective_) ==
  With(Collect(rw.marks, EmptyCollector, bindings, 1), LAMBDA collector :
  With(
             {TryNormalizeSplits(rw.marks[m], collector.mark2splits_[m],
                                 require_bijective_).status : m \in collector.visited_} \ {"ok"},
  LAMBDA bad :
     IF bad # {} THEN bad ELSE {"ok"}))

(* CheckMapping: the set of outcomes over the iteration orders of the       *)
(* unordered set visited_ ("ok", "fail", "abort")                           *)
CheckMapping(rw, bindings, require_bijective_) ==
  With(Collect(rw.marks, EmptyCollector, bindings, 1), LAMBDA collector :
  With(
             {TryNormalizeSplits(rw.marks[m], collector.mark2splits_[m],
                                 require_bijective_).status : m \in collector.visited_} \ {"ok"},
  LAMBDA bad :
     IF bad # {} THEN bad
     ELSE IF require_bijective_
             /\ \E x \in 1..Len(rw.input_marks_) : rw.input_marks_[x] \notin collector.visited_
       THEN {"fail"}
     ELSE {"ok"}))

(* whether the split x of constraint i is a split of constraint j *)
Found(cs, i, j, x) ==
  \E y \in 1..Len(cs[j].args) : IterSplitEqual(cs[i].args[x], cs[j].args[y], TRUE)

CheckConstraints(rw) ==
  \A i \in 1..Len(rw.constrained_iters_flattened_) :
    \A j \in (i + 1)..Len(rw.constrained_iters_flattened_) :
      \A x \in 2..Len(rw.constrained_iters_flattened_[i].args) :
        Found(rw.constrained_iters_flattened_, i, j, x)
          = Found(rw.constrained_iters_flattened_, i, j, 1)

-----------------------------------------------------------------------------
(* MatchBoundConstraints and IterRangeSanityCheck *)

RECURSIVE UsesVar(_, _)
UsesVar(e, vars) ==
  IF e.k = "var" THEN e.name \in vars
  ELSE IF e.k \in BinaryKinds THEN UsesVar(e.a, vars) \/ UsesVar(e.b, vars)
  ELSE FALSE

(* CalculateExprComplexity: the number of nodes of the expression *)
RECURSIVE CalculateExprComplexity(_)
CalculateExprComplexity(e) ==
  IF e.k \in BinaryKinds
    THEN 1 + CalculateExprComplexity(e.a) + CalculateExprComplexity(e.b)
    ELSE 1

IterVars(iters) == {iters[x].var : x \in 1..Len(iters)}

(* a variant of IterRangeSanityCheck that accepts every range *)
AcceptEveryRange(iter_ranges) == TRUE

IterRangeSanityCheck(iter_ranges) ==
  \A x \in 1..Len(iter_ranges) :
    /\ ~UsesVar(iter_ranges[x].min, IterVars(iter_ranges))
    /\ ~UsesVar(iter_ranges[x].extent, IterVars(iter_ranges))

(* the comparison that one round of the loop of MatchBoundConstraints       *)
(* extracts from pred; none when no pattern matches                         *)
PeelKind(pred, kind) ==
  IF pred.k = "and" /\ pred.b.k = kind THEN [cmp |-> pred.b, rest |-> pred.a, is_finish |-> FALSE]
  ELSE IF pred.k = "and" /\ pred.a.k = kind THEN [cmp |-> pred.a, rest |-> pred.b, is_finish |-> FALSE]
  ELSE IF pred.k = kind THEN [cmp |-> pred, rest |-> pred, is_finish |-> TRUE]
  ELSE [cmp |-> Undefined, rest |-> pred, is_finish |-> TRUE]

Peel(pred) ==
  IF defined(PeelKind(pred, "lt").cmp) THEN PeelKind(pred, "lt")
  ELSE IF defined(PeelKind(pred, "le").cmp) THEN PeelKind(pred, "le")
  ELSE IF defined(PeelKind(pred, "gt").cmp) THEN PeelKind(pred, "gt")
  ELSE PeelKind(pred, "ge")

(* f_extract: acc.lhs_expr gathers the parts that use an iterator,          *)
(* acc.rhs_expr the negated rest                                            *)
RECURSIVE ExtractParts(_, _, _, _)
ExtractParts(part, sign, vars, acc) ==
  IF part.k = "add" THEN ExtractParts(part.b, sign, vars, ExtractParts(part.a, sign, vars, acc))
  ELSE IF part.k = "sub" THEN ExtractParts(part.b, ~sign, vars, ExtractParts(part.a, sign, vars, acc))
  ELSE IF UsesVar(part, vars)
    THEN [acc EXCEPT !.lhs_expr = PrimOp(IF sign THEN "add" ELSE "sub", @, part)]
  ELSE [acc EXCEPT !.rhs_expr = PrimOp(IF sign THEN "sub" ELSE "add", @, part)]

(* IterConstraint that reads <= as < and >= as > *)
IterConstraintOfStrict(cmp, vars) ==
  With(cmp.k \in {"gt", "ge"}, LAMBDA is_greater :
  With(FALSE, LAMBDA is_equal :
  With(IsImm(cmp.a) \/ ~UsesVar(cmp.a, vars), LAMBDA bound_at_left :
  With(~bound_at_left /\ ~(IsImm(cmp.b) \/ ~UsesVar(cmp.b, vars)), LAMBDA both :
  With(
               ExtractParts(Bin("sub", cmp.a, cmp.b), TRUE, vars,
                            [lhs_expr |-> Imm(0), rhs_expr |-> Imm(0)]),
  LAMBDA parts :
  With(IF both THEN parts.lhs_expr ELSE cmp.a, LAMBDA lhs_expr :
  With(IF both THEN parts.rhs_expr ELSE cmp.b, LAMBDA rhs_expr :
     IF is_greater /\ bound_at_left THEN
       [iter |-> rhs_expr, lower_bound |-> Undefined,
        upper_bound |-> IF is_equal THEN PrimOp("add", lhs_expr, Imm(1)) ELSE lhs_expr]
     ELSE IF is_greater THEN
       [iter |-> lhs_expr, lower_bound |-> IF is_equal THEN rhs_expr ELSE PrimOp("add", rhs_expr, Imm(1)),
        upper_bound |-> Undefined]
     ELSE IF bound_at_left THEN
       [iter |-> rhs_expr, lower_bound |-> IF is_equal THEN lhs_expr ELSE PrimOp("add", lhs_expr, Imm(1)),
        upper_bound |-> Undefined]
     ELSE
       [iter |-> lhs_expr, lower_bound |-> Undefined,
        upper_bound |-> IF is_equal THEN PrimOp("add", rhs_expr, Imm(1)) ELSE rhs_expr])))))))

IterConstraint(cmp, vars) ==
  With(cmp.k \in {"gt", "ge"}, LAMBDA is_greater :
  With(cmp.k \in {"le", "ge"}, LAMBDA is_equal :
  With(IsImm(cmp.a) \/ ~UsesVar(cmp.a, vars), LAMBDA bound_at_left :
  With(~bound_at_left /\ ~(IsImm(cmp.b) \/ ~UsesVar(cmp.b, vars)), LAMBDA both :
  With(
               ExtractParts(Bin("sub", cmp.a, cmp.b), TRUE, vars,
                            [lhs_expr |-> Imm(0), rhs_expr |-> Imm(0)]),
  LAMBDA parts :
  With(IF both THEN parts.lhs_expr ELSE cmp.a, LAMBDA lhs_expr :
  With(IF both THEN parts.rhs_expr ELSE cmp.b, LAMBDA rhs_expr :
     IF is_greater /\ bound_at_left THEN
       [iter |-> rhs_expr, lower_bound |-> Undefined,
        upper_bound |-> IF is_equal THEN PrimOp("add", lhs_expr, Imm(1)) ELSE lhs_expr]
     ELSE IF is_greater THEN
       [iter |-> lhs_expr, lower_bound |-> IF is_equal THEN rhs_expr ELSE PrimOp("add", rhs_expr, Imm(1)),
        upper_bound |-> Undefined]
     ELSE IF bound_at_left THEN
       [iter |-> rhs_expr, lower_bound |-> IF is_equal THEN lhs_expr ELSE PrimOp("add", lhs_expr, Imm(1)),
        upper_bound |-> Undefined]
     ELSE
       [iter |-> lhs_expr, lower_bound |-> Undefined,
        upper_bound |-> IF is_equal THEN PrimOp("add", rhs_expr, Imm(1)) ELSE rhs_expr])))))))

RECURSIVE MatchBoundConstraints(_, _, _)
MatchBoundConstraints(pred, vars, result) ==
  With(Peel(pred), LAMBDA m :
     IF ~defined(m.cmp) THEN <<>>
     ELSE IF m.is_finish THEN Append(result, IterConstraint(m.cmp, vars))
     ELSE MatchBoundConstraints(m.rest, vars, Append(result, IterConstraint(m.cmp, vars))))

(* the orders std::sort may leave the constraints in: ascending expr_size   *)
IsPermutation(f, n) == \A y \in 1..n : \E x \in 1..n : f[x] = y
SortedOrders(cs) ==
  {f \in [1..Len(cs) -> 1..Len(cs)] :
     /\ IsPermutation(f, Len(cs))
     /\ \A x \in 1..Len(cs) : \A y \in (x + 1)..Len(cs) :
          CalculateExprComplexity(cs[f[x]].iter) <= CalculateExprComplexity(cs[f[y]].iter)}

(* IterMapRewriter::IterMapRewriter *)
RECURSIVE NewRewriter(_, _, _)
NewRewriter(iters, p, rw) ==
  IF p > Len(iters) THEN rw
  ELSE
    With(iters[p].var, LAMBDA var :
    With(iters[p].min, LAMBDA vmin :
    With(iters[p].extent, LAMBDA extent :
    With(Append(rw.marks, IterMark(Var(var), extent)), LAMBDA marks0 :
    With(Append(rw.marks, IterMark(PrimOp("sub", Var(var), vmin), extent)), LAMBDA marks1 :
       NewRewriter(iters, p + 1,
         IF is_one(extent) THEN
           [rw EXCEPT !.var_map_ = MapPut(@, var, IterSumExpr(<<>>, vmin))]
         ELSE IF is_zero(vmin) THEN
           [rw EXCEPT !.marks = marks0,
                      !.var_map_ = MapPut(@, var, SplitOfMark(marks0, Len(marks0), Imm(1))),
                      !.input_marks_ = Append(@, Len(marks0))]
         ELSE
           [rw EXCEPT !.marks = marks1,
                      !.var_map_ = MapPut(@, var,
                         IterSumExpr(<<SplitOfMark(marks1, Len(marks1), Imm(1))>>, vmin)),
                      !.input_marks_ = Append(@, Len(marks1))]))))))

NoRewriter ==
  [marks |-> <<>>, var_map_ |-> EmptyMap, input_marks_ |-> <<>>,
   sum_fuse_map_ |-> EmptyMap, flattened_map_ |-> EmptyMap,
   constrained_iters_flattened_ |-> <<>>, unresolved_count_ |-> 0, aborted |-> FALSE]

-----------------------------------------------------------------------------
(* Lowering of iterator-map expressions (class IterMapToExprNormalizer).    *)
(* An operator of tir that would divide by the constant 0 ends the call:    *)
(* the result is then Undefined.                                            *)

LowerOp(op, a, b) ==
  IF ~defined(a) \/ ~defined(b) THEN Undefined
  ELSE IF op \in {"floordiv", "floormod"} /\ DivByZero(b) THEN Undefined
  ELSE PrimOp(op, a, b)

RECURSIVE ConvertIterSumExpr(_, _)
RECURSIVE ConvertIterSplitExpr(_, _)
RECURSIVE ConvertArgs(_, _, _, _)
RECURSIVE NormalizerVisitExpr(_, _)

(* the loop "res += ConvertIterSplitExpr(arg)" from position p on *)
ConvertArgs(marks, args, p, res) ==
  IF p > Len(args) THEN res
  ELSE ConvertArgs(marks, args, p + 1,
                   LowerOp("add", res, ConvertIterSplitExpr(marks, args[p])))

ConvertIterSumExpr(marks, expr) ==
  LowerOp("add", ConvertArgs(marks, expr.args, 1, Imm(0)), expr.base)

ConvertIterSplitExpr(marks, expr) ==
  With(marks[expr.source], LAMBDA mark :
  With(
                IF mark.source.k = "var" THEN mark.source
                ELSE IF mark.source.k = "sum" THEN ConvertIterSumExpr(marks, mark.source)
                ELSE NormalizerVisitExpr(marks, mark.source),
  LAMBDA source :
     IF CanProveEqual(expr.extent, mark.extent) /\ is_one(expr.lower_factor)
       THEN LowerOp("mul", source, expr.scale)
     ELSE IF CanProveEqual(mark.extent, PrimOp("mul", expr.lower_factor, expr.extent))
       THEN LowerOp("mul", LowerOp("floordiv", source, expr.lower_factor), expr.scale)
     ELSE LowerOp("mul", LowerOp("floormod", LowerOp("floordiv", source, expr.lower_factor),
                                 expr.extent), expr.scale)))

(* the override of VisitExpr; other nodes are rebuilt from their visited    *)
(* children by ExprMutator                                                  *)
NormalizerVisitExpr(marks, expr) ==
  IF expr.k = "split" THEN ConvertIterSplitExpr(marks, expr)
  ELSE IF expr.k = "sum" THEN ConvertIterSumExpr(marks, expr)
  ELSE IF expr.k \in BinaryKinds
    THEN With(NormalizerVisitExpr(marks, expr.a), LAMBDA a :
         With(NormalizerVisitExpr(marks, expr.b), LAMBDA b :
            IF defined(a) /\ defined(b) THEN Bin(expr.k, a, b) ELSE Undefined))
  ELSE expr

NormalizeIterMapToExpr(marks, expr) == NormalizerVisitExpr(marks, expr)

RECURSIVE ConvertAll(_, _, _, _)
(* the loop "res.push_back(converter.Convert(expr))" of IterMapSimplify *)
ConvertAll(marks, rewrite, p, res) ==
  IF p > Len(rewrite) THEN res
  ELSE ConvertAll(marks, rewrite, p + 1,
                  Append(res, NormalizeIterMapToExpr(marks, rewrite[p])))

-----------------------------------------------------------------------------
(* The value of a PrimExpr under an assignment env of its variables:        *)
(* <<v>>, or <<>> when the expression divides by zero.                      *)

RECURSIVE Eval(_, _)
Eval(e, env) ==
  IF e.k = "int" THEN <<e.val>>
  ELSE IF e.k = "var" THEN <<env[e.name]>>
  ELSE IF e.k = "true" THEN <<TRUE>>
  ELSE IF e.k = "false" THEN <<FALSE>>
  ELSE With(Eval(e.a, env), LAMBDA a :
       With(Eval(e.b, env), LAMBDA b :
          IF a = <<>> \/ b = <<>> THEN <<>>
          ELSE CASE e.k = "add" -> <<a[1] + b[1]>>
                 [] e.k = "sub" -> <<a[1] - b[1]>>
                 [] e.k = "mul" -> <<a[1] * b[1]>>
                 [] e.k = "floordiv" ->
                      IF b[1] = 0 THEN <<>> ELSE <<FloorDivInt(a[1], b[1])>>
                 [] e.k = "floormod" ->
                      IF b[1] = 0 THEN <<>> ELSE <<FloorModInt(a[1], b[1])>>
                 [] e.k = "div" ->
                      IF b[1] = 0 THEN <<>> ELSE <<TruncDivInt(a[1], b[1])>>
                 [] e.k = "min" -> <<IF a[1] < b[1] THEN a[1] ELSE b[1]>>
                 [] e.k = "max" -> <<IF a[1] > b[1] THEN a[1] ELSE b[1]>>
                 [] e.k = "lt" -> <<a[1] < b[1]>>
                 [] e.k = "le" -> <<a[1] <= b[1]>>
                 [] e.k = "gt" -> <<a[1] > b[1]>>
                 [] e.k = "ge" -> <<a[1] >= b[1]>>
                 [] e.k = "and" -> <<a[1] /\ b[1]>>))

-----------------------------------------------------------------------------
(* Subspace division (class SubspaceDivider).  Its members are the fields   *)
(* of a record dv: marks (the arena, which the marks the divider builds     *)
(* extend), split_map_, unresolved_count_, outer_preds_, inner_preds_, and  *)
(* aborted.  The collector and sub_iters_ never change: they are the fields *)
(* of a record ctx.                                                         *)

BoolFalse == [k |-> "false"]

(* operator&& and operator< of tir/op.h, with their constant folding *)
AndOp(a, b) ==
  IF a = BoolTrue THEN b
  ELSE IF a = BoolFalse THEN a
  ELSE IF b = BoolTrue THEN a
  ELSE IF b = BoolFalse THEN b
  ELSE Bin("and", a, b)

LtOp(a, b) ==
  IF IsImm(a) /\ IsImm(b) THEN (IF a.val < b.val THEN BoolTrue ELSE BoolFalse)
  ELSE Bin("lt", a, b)

DivisionResult(outer, outer_extent, inner, inner_extent) ==
  [outer |-> outer, inner |-> inner,
   outer_extent |-> outer_extent, inner_extent |-> inner_extent]

IsOuter(d) == is_one(d.inner_extent)
IsInner(d) == is_one(d.outer_extent)
Inner(iter, extent) == DivisionResult(IterSumExpr(<<>>, Imm(0)), Imm(1), iter, extent)
Outer(iter, extent) == DivisionResult(iter, extent, IterSumExpr(<<>>, Imm(0)), Imm(1))

NewDivider(marks) ==
  [marks |-> marks, split_map_ |-> EmptyMap, unresolved_count_ |-> 0,
   outer_preds_ |-> BoolTrue, inner_preds_ |-> BoolTrue, aborted |-> FALSE]

DividerFail(dv) ==
  [val |-> DivisionResult(IterSumExpr(<<>>, Imm(0)), Imm(0), IterSumExpr(<<>>, Imm(0)), Imm(0)),
   dv |-> [dv EXCEPT !.unresolved_count_ = @ + 1]]

DividerAbort(dv) ==
  [val |-> DivisionResult(IterSumExpr(<<>>, Imm(0)), Imm(0), IterSumExpr(<<>>, Imm(0)), Imm(0)),
   dv |-> [dv EXCEPT !.aborted = TRUE]]

(* GetOuterAsSplit and GetInnerAsSplit: a sum is wrapped in a new mark *)
GetAsSplit(expr, extent, dv) ==
  IF expr.k = "split" THEN [val |-> expr, dv |-> dv]
  ELSE With(Append(dv.marks, IterMark(expr, extent)), LAMBDA marks :
          [val |-> SplitOfMark(marks, Len(marks), Imm(1)),
           dv |-> [dv EXCEPT !.marks = marks]])

AddBase(division, base) ==
  IF division.inner.k = "split"
    THEN [division EXCEPT !.inner = IterSumExpr(<<division.inner>>, base)]
  ELSE IF division.inner.k = "sum"
    THEN [division EXCEPT !.inner = IterSumExpr(division.inner.args,
                                                PrimOp("add", division.inner.base, base))]
  ELSE division

RECURSIVE MarkArgs(_, _, _, _)
(* the loop of MarkFromArgsAndBase from position p on: res is built in      *)
(* reverse, outermost first                                                 *)
MarkArgs(args, p, extent, res) ==
  IF p > Len(args) THEN [res |-> res, extent |-> extent]
  ELSE MarkArgs(args, p + 1, PrimOp("mul", extent, args[p].extent),
                <<[args[p] EXCEPT !.scale = extent]>> \o res)

(* a variant of MarkFromArgsAndBase whose mark has the extent of its        *)
(* outermost arg only                                                       *)
MarkFromArgsAndBaseOfLast(args, base) ==
  With(MarkArgs(args, 1, Imm(1), <<>>), LAMBDA r :
     IterMark(IterSumExpr(r.res, base), IF args = <<>> THEN Imm(1) ELSE Last(args).extent))

MarkFromArgsAndBase(args, base) ==
  With(MarkArgs(args, 1, Imm(1), <<>>), LAMBDA r :
     IterMark(IterSumExpr(r.res, base), r.extent))

(* split_map_.emplace: an existing entry stays *)
Emplace(map, key, val) == IF key \in DOMAIN map THEN map ELSE MapPut(map, key, val)

RECURSIVE DivideIterSumExpr(_, _, _, _)
RECURSIVE DivideIterSplitExpr(_, _, _)
RECURSIVE DivideArgsLoop(_, _, _, _)
RECURSIVE BoundaryLoop(_, _, _, _)
RECURSIVE EmplaceInner(_, _, _, _)
RECURSIVE EmplaceOuter(_, _, _, _, _)
RECURSIVE EmplaceVar(_, _, _, _)

(* the loop of DivideIterSumExpr over expr->args in inverse order, from     *)
(* position p down; st.status is "run", or "fail" once the loop returned    *)
(* Fail                                                                     *)
DivideArgsLoop(args, ctx, p, st) ==
  IF p < 1 \/ st.status # "run" \/ st.dv.aborted THEN st
  ELSE
    With(args[p], LAMBDA arg :
    With(st.scale_is_one \/ is_one(arg.scale), LAMBDA scale_is_one :
    With(DivideIterSplitExpr(arg, ctx, st.dv), LAMBDA d :
    With(d.val, LAMBDA arg_division :
       IF d.dv.aborted THEN [st EXCEPT !.dv = d.dv]
       ELSE IF IsInner(arg_division) THEN
         IF ~st.inner
           THEN [st EXCEPT !.dv = DividerFail(d.dv).dv, !.status = "fail"]
         ELSE With(GetAsSplit(arg_division.inner, arg_division.inner_extent, d.dv), LAMBDA g :
                 DivideArgsLoop(args, ctx, p - 1,
                   [st EXCEPT !.dv = g.dv, !.scale_is_one = scale_is_one,
                              !.inner_args = Append(@, g.val), !.inner = TRUE,
                              !.extent = PrimOp("mul", @, g.val.extent)]))
       ELSE IF IsOuter(arg_division) THEN
         With(GetAsSplit(arg_division.outer, arg_division.outer_extent, d.dv), LAMBDA g :
            DivideArgsLoop(args, ctx, p - 1,
              [st EXCEPT !.dv = g.dv, !.scale_is_one = scale_is_one,
                         !.outer_args = Append(@, g.val), !.inner = FALSE,
                         !.extent = PrimOp("mul", @, g.val.extent)]))
       ELSE [st EXCEPT !.dv = DividerFail(d.dv).dv, !.status = "fail"]))))

DivideIterSumExpr(expr, mark_extent, ctx, dv) ==
  IF dv.aborted THEN DividerAbort(dv)
  ELSE IF Len(expr.args) = 0 THEN
    [val |-> DivisionResult(IterSumExpr(<<>>, Imm(0)), Imm(1),
                            IterSumExpr(<<>>, expr.base), Imm(1)),
     dv |-> dv]
  ELSE IF Len(expr.args) = 1 THEN
    IF ~is_one(expr.args[1].scale) THEN DividerFail(dv)
    ELSE With(DivideIterSplitExpr(expr.args[1], ctx, dv), LAMBDA res :
            IF ~is_zero(expr.base) THEN [res EXCEPT !.val = AddBase(@, expr.base)]
            ELSE res)
  ELSE
    With(
              DivideArgsLoop(expr.args, ctx, Len(expr.args),
                [extent |-> Imm(1), outer_args |-> <<>>, inner_args |-> <<>>,
                 inner |-> TRUE, scale_is_one |-> FALSE, dv |-> dv, status |-> "run"]),
    LAMBDA st :
    With(~CanProveEqual(st.extent, mark_extent), LAMBDA need_predicate :
    With(MarkFromArgsAndBase(st.outer_args, Imm(0)), LAMBDA outer_mark :
    With(MarkFromArgsAndBase(st.inner_args, expr.base), LAMBDA inner_mark :
    With(outer_mark.source, LAMBDA outer_source :
    With(inner_mark.source, LAMBDA inner_source :
       IF st.dv.aborted THEN DividerAbort(st.dv)
       ELSE IF st.status = "fail" THEN [DividerFail(st.dv) EXCEPT !.dv = st.dv]
       ELSE IF ~st.scale_is_one THEN DividerFail(st.dv)
       ELSE IF need_predicate THEN
         IF st.inner_args = <<>> THEN
           With(ConvertIterSumExpr(st.dv.marks, outer_source), LAMBDA c :
              IF ~defined(c) THEN DividerAbort(st.dv)
              ELSE [val |-> Outer(outer_source, mark_extent),
                    dv |-> [st.dv EXCEPT !.outer_preds_ = AndOp(@, LtOp(c, mark_extent))]])
         ELSE IF st.outer_args = <<>> THEN
           With(ConvertIterSumExpr(st.dv.marks, inner_source), LAMBDA c :
              IF ~defined(c) THEN DividerAbort(st.dv)
              ELSE [val |-> Inner(inner_source, mark_extent),
                    dv |-> [st.dv EXCEPT !.inner_preds_ = AndOp(@, LtOp(c, mark_extent))]])
         ELSE DividerFail(st.dv)
       ELSE [val |-> DivisionResult(outer_source, outer_mark.extent,
                                    inner_source, inner_mark.extent),
             dv |-> st.dv]))))))

(* source is input_iter: the loop over the splits of the mark *)
EmplaceVar(splits, p, inner, map) ==
  IF p > Len(splits) THEN map
  ELSE EmplaceVar(splits, p + 1, inner,
         Emplace(map, splits[p],
                 IF inner THEN Inner(splits[p], splits[p].extent)
                 ELSE Outer(splits[p], splits[p].extent)))

(* "find the boundary of outer and inner": round i of the loop over the     *)
(* splits                                                                   *)
BoundaryLoop(splits, inner_extent, i, st) ==
  IF i > Len(splits) \/ ~st.found THEN st
  ELSE
    With(
             {j \in 1..Len(splits) :
                ~st.used[j] /\ CanProveEqual(splits[j].lower_factor, st.expected_lower_factor)},
    LAMBDA C :
       IF C = {} THEN [st EXCEPT !.found = FALSE]
       ELSE With(MinOf(C), LAMBDA j :
            With(PrimOp("mul", st.expected_lower_factor, splits[j].extent), LAMBDA elf :
               BoundaryLoop(splits, inner_extent, i + 1,
                 [st EXCEPT !.used[j] = TRUE,
                            !.inner_iters = IF st.encountered_boundary THEN @
                                            ELSE Append(@, splits[j]),
                            !.outer_iters = IF st.encountered_boundary THEN Append(@, splits[j])
                                            ELSE @,
                            !.expected_lower_factor = elf,
                            !.encountered_boundary = @ \/ CanProveEqual(elf, inner_extent)]))))

EmplaceInner(inner_iters, p, inner_mark, map) ==
  IF p > Len(inner_iters) THEN map
  ELSE EmplaceInner(inner_iters, p + 1, inner_mark,
         Emplace(map, inner_iters[p],
                 Inner([inner_iters[p] EXCEPT !.source = inner_mark], inner_iters[p].extent)))

(* first_lower_factor is outer_iters[0]->lower_factor, not the constant 0 *)
EmplaceOuter(outer_iters, p, outer_mark, first_lower_factor, map) ==
  IF p > Len(outer_iters) THEN map
  ELSE EmplaceOuter(outer_iters, p + 1, outer_mark, first_lower_factor,
         Emplace(map, outer_iters[p],
                 Outer([outer_iters[p] EXCEPT
                          !.source = outer_mark,
                          !.lower_factor = PrimOp("floordiv", @, first_lower_factor)],
                       outer_iters[p].extent)))

DivideIterSplitExpr(expr, ctx, dv) ==
  IF dv.aborted THEN DividerAbort(dv)
  ELSE IF expr \in DOMAIN dv.split_map_ THEN [val |-> dv.split_map_[expr], dv |-> dv]
  ELSE IF expr.source \notin DOMAIN ctx.mark2splits_ THEN DividerAbort(dv)
  ELSE
    With(ctx.mark2splits_[expr.source], LAMBDA splits :
    With(dv.marks[expr.source], LAMBDA mark :
       IF mark.source.k = "var" THEN
         With(EmplaceVar(splits, 1, mark.source.name \in ctx.sub_iters_, dv.split_map_), LAMBDA map :
            IF expr \notin DOMAIN map THEN DividerAbort(dv)
            ELSE [val |-> map[expr], dv |-> [dv EXCEPT !.split_map_ = map]])
       ELSE IF mark.source.k = "sum" THEN
         With(DivideIterSumExpr(mark.source, mark.extent, ctx, dv), LAMBDA md :
         With(md.val, LAMBDA mark_division :
            IF md.dv.aborted THEN md
            ELSE IF Len(splits) = 1 THEN md
            ELSE IF mark_division.outer.k # "sum" \/ mark_division.inner.k # "sum"
              THEN DividerAbort(md.dv)
            ELSE
              With(
                           md.dv.marks \o
                             <<IterMark(mark_division.outer, mark_division.outer_extent),
                               IterMark(mark_division.inner, mark_division.inner_extent)>>,
              LAMBDA marks :
              With(Len(marks) - 1, LAMBDA outer_mark :
              With(Len(marks), LAMBDA inner_mark :
              With(
                        BoundaryLoop(splits, mark_division.inner_extent, 1,
                          [used |-> [j \in 1..Len(splits) |-> FALSE],
                           inner_iters |-> <<>>, outer_iters |-> <<>>,
                           expected_lower_factor |-> Imm(1),
                           encountered_boundary |-> IsOuter(mark_division),
                           found |-> TRUE]),
              LAMBDA st :
              With([md.dv EXCEPT !.marks = marks], LAMBDA dm :
              With(EmplaceInner(st.inner_iters, 1, inner_mark, dm.split_map_), LAMBDA m1 :
              With(
                                        IF st.outer_iters = <<>> THEN Imm(1)
                                        ELSE st.outer_iters[1].lower_factor,
              LAMBDA first_lower_factor :
              With(EmplaceOuter(st.outer_iters, 1, outer_mark, first_lower_factor, m1), LAMBDA m2 :
                 IF ~st.found \/ ~st.encountered_boundary THEN DividerFail(dm)
                 ELSE IF DivByZero(first_lower_factor) THEN DividerAbort(dm)
                 ELSE IF expr \notin DOMAIN m2 THEN DividerAbort(dm)
                 ELSE [val |-> m2[expr], dv |-> [dm EXCEPT !.split_map_ = m2]]))))))))))
       ELSE DividerFail(dv)))

RECURSIVE DivideAll(_, _, _, _)
(* the loop of SubspaceDivide over maps from position p on; the value is    *)
(* <<results, divider>>, results being Undefined after "return {}"          *)
DivideAll(maps_, ctx, p, st) ==
  IF p > Len(maps_) THEN st
  ELSE With(DivideIterSumExpr(maps_[p], Imm(0), ctx, st.dv), LAMBDA r :
          IF r.dv.aborted \/ r.dv.unresolved_count_ # 0
            THEN [results |-> <<>>, dv |-> r.dv]
          ELSE DivideAll(maps_, ctx, p + 1,
                 [results |-> Append(st.results,
                                     <<IterMark(r.val.outer, r.val.outer_extent),
                                       IterMark(r.val.inner, r.val.inner_extent)>>),
                  dv |-> r.dv]))

(* SubspaceDivide after DetectIterMap returned a non-empty maps *)
DivideMaps(marks, maps_, inner_iter_set) ==
  With(Collect(marks, EmptyCollector, maps_, 1), LAMBDA collector :
  With([mark2splits_ |-> collector.mark2splits_, sub_iters_ |-> inner_iter_set], LAMBDA ctx :
  With(DivideAll(maps_, ctx, 1, [results |-> <<>>, dv |-> NewDivider(marks)]), LAMBDA st :
     IF st.dv.aborted \/ st.dv.unresolved_count_ # 0 THEN st
     ELSE [st EXCEPT !.results =
             Append(@, <<IterMark(IterSumExpr(<<>>, Imm(0)), st.dv.outer_preds_),
                         IterMark(IterSumExpr(<<>>, Imm(0)), st.dv.inner_preds_)>>)])))

-----------------------------------------------------------------------------
(* The inverse of an iterator map (class InverseAffineIterMapTransformer).  *)
(* Its members backprop_ and inverse_ are the fields of a record iv, with   *)
(* aborted for an ICHECK, a Downcast or a division by the constant 0 that   *)
(* ended the call.                                                          *)

RECURSIVE fvisit(_, _, _)
RECURSIVE fvisitArgs(_, _, _, _)
fvisit(marks, expr, st) ==
  IF expr \in st.visited THEN st
  ELSE
    With([st EXCEPT !.visited = @ \cup {expr}], LAMBDA st1 :
    With(
               IF expr.k = "sum" THEN fvisitArgs(marks, expr.args, 1, st1)
               ELSE IF IsIterMapExpr(marks[expr.source].source)
                 THEN fvisit(marks, marks[expr.source].source, st1)
               ELSE st1,
    LAMBDA st2 :
       [st2 EXCEPT !.post_dfs_order = Append(@, expr)]))

fvisitArgs(marks, args, p, st) ==
  IF p > Len(args) THEN st
  ELSE fvisitArgs(marks, args, p + 1, fvisit(marks, args[p], st))

RECURSIVE fvisitAll(_, _, _, _)
fvisitAll(marks, iter_map, p, st) ==
  IF p > Len(iter_map) THEN st
  ELSE fvisitAll(marks, iter_map, p + 1, fvisit(marks, iter_map[p], st))

ReverseTopologyOrder(marks, iter_map) ==
  Reverse(fvisitAll(marks, iter_map, 1, [visited |-> {}, post_dfs_order |-> <<>>]).post_dfs_order)

RECURSIVE CheckFuseLoop(_, _, _)
(* the loop of CheckFusePattern from position i down *)
CheckFuseLoop(args, i, expected_scale) ==
  IF i < 1 THEN TRUE
  ELSE /\ CanProveEqual(args[i].scale, expected_scale)
       /\ CheckFuseLoop(args, i - 1, PrimOp("mul", expected_scale, args[i].extent))

CheckFusePattern(sum_expr) ==
  /\ Len(sum_expr.args) # 0
  /\ CheckFuseLoop(sum_expr.args, Len(sum_expr.args), Last(sum_expr.args).scale)

RECURSIVE BackpropArgs(_, _, _, _)
(* the loop of Visit_(IterSumExpr) over the components, from position i down *)
BackpropArgs(args, i, input, iv) ==
  IF i < 1 \/ iv.aborted THEN iv
  ELSE With(args[i], LAMBDA split :
          IF DivByZero(split.scale) \/ DivByZero(split.extent)
            THEN [iv EXCEPT !.aborted = TRUE]
          ELSE BackpropArgs(args, i - 1, input,
                 [iv EXCEPT !.backprop_ =
                    MapPut(@, split,
                           PrimOp("add", @[split],
                                  PrimOp("floormod", PrimOp("floordiv", input, split.scale),
                                         split.extent)))]))

VisitSum(iter_map_expr, iv) ==
  With(PrimOp("sub", iv.backprop_[iter_map_expr], iter_map_expr.base), LAMBDA input :
     IF Len(iter_map_expr.args) = 1
       THEN With(iter_map_expr.args[1], LAMBDA source :
               [iv EXCEPT !.backprop_ = MapPut(@, source, PrimOp("add", @[source], input))])
     ELSE IF ~CheckFusePattern(iter_map_expr) THEN [iv EXCEPT !.aborted = TRUE]
     ELSE BackpropArgs(iter_map_expr.args, Len(iter_map_expr.args), input, iv))

VisitSplit(marks, iter_map_expr, iv) ==
  With(PrimOp("mul", iv.backprop_[iter_map_expr], iter_map_expr.lower_factor), LAMBDA input :
  With(marks[iter_map_expr.source].source, LAMBDA source :
     IF source.k = "sum"
       THEN [iv EXCEPT !.backprop_ = MapPut(@, source, PrimOp("add", @[source], input))]
     ELSE IF source.k # "var" THEN [iv EXCEPT !.aborted = TRUE]
     ELSE IF source.name \in DOMAIN iv.inverse_
       THEN [iv EXCEPT !.inverse_ = MapPut(@, source.name, PrimOp("add", @[source.name], input))]
     ELSE [iv EXCEPT !.inverse_ = MapPut(@, source.name, input)]))

RECURSIVE Backprop(_, _, _, _)
(* "run back propagation" from position p of post_dfs_order on *)
Backprop(marks, post_dfs_order, p, iv) ==
  IF p > Len(post_dfs_order) \/ iv.aborted THEN iv
  ELSE Backprop(marks, post_dfs_order, p + 1,
                IF post_dfs_order[p].k = "sum" THEN VisitSum(post_dfs_order[p], iv)
                ELSE VisitSplit(marks, post_dfs_order[p], iv))

RECURSIVE SetOutputs(_, _, _, _)
SetOutputs(iter_map, outputs, i, backprop) ==
  IF i > Len(iter_map) THEN backprop
  ELSE SetOutputs(iter_map, outputs, i + 1, MapPut(backprop, iter_map[i], outputs[i]))

InverseAffineIterMap(marks, iter_map, outputs) ==
  With(ReverseTopologyOrder(marks, iter_map), LAMBDA post_dfs_order :
  With({post_dfs_order[p] : p \in 1..Len(post_dfs_order)}, LAMBDA nodes :
  With(SetOutputs(iter_map, outputs, 1, [n \in nodes |-> Imm(0)]), LAMBDA backprop :
     IF Len(iter_map) # Len(outputs)
       THEN [backprop_ |-> EmptyMap, inverse_ |-> EmptyMap, aborted |-> TRUE]
     ELSE Backprop(marks, post_dfs_order, 1,
                   [backprop_ |-> backprop, inverse_ |-> EmptyMap, aborted |-> FALSE]))))

-----------------------------------------------------------------------------
(* The state of one call of an entry point *)

VARIABLES
  entry,              \* the entry point called
  indices,            \* Array<PrimExpr> indices (bindings)
  input_iters,        \* Map<Var, Range>, in insertion order
  predicate,
  require_bijective,
  sub_iters,          \* the inner iterators of SubspaceDivide
  pc,                 \* the position in the entry point
  rewriter,           \* the IterMapRewriter of DetectIterMap
  constraints,        \* the sorted constraints not yet rewritten
  results,            \* DetectIterMap's local list of rewritten indices
  maps,               \* what DetectIterMap returned
  simplified,         \* what IterMapSimplify returned
  division,           \* what SubspaceDivide returned
  divider,            \* the SubspaceDivider of SubspaceDivide
  inverse,            \* the InverseAffineIterMapTransformer after its call
  call,               \* a call of one member function of the rewriter
  ret                 \* what that call returned

inputs == <<entry, indices, input_iters, predicate, require_bijective, sub_iters>>
outputs == <<simplified, division, divider, inverse>>
vars == <<entry, indices, input_iters, predicate, require_bijective, sub_iters,
          pc, rewriter, constraints, results, maps,
          simplified, division, divider, inverse, call, ret>>
function == <<call, ret>>

NoInverse == [backprop_ |-> EmptyMap, inverse_ |-> EmptyMap, aborted |-> FALSE]
NoCall == [fn |-> "none"]
NoReturn == [k |-> "none"]

(* the return of IterMapSimplify when the ranges are not well formed *)
IterMapSimplifyInsane ==
  /\ pc = "call"
  /\ entry = "IterMapSimplify"
  /\ ~IterRangeSanityCheck(input_iters)
  /\ simplified' = indices
  /\ pc' = "done"
  /\ UNCHANGED <<inputs, function, rewriter, constraints, results, maps, division, divider, inverse>>

(* the return of SubspaceDivide when the ranges are not well formed *)
SubspaceDivideInsane ==
  /\ pc = "call"
  /\ entry = "SubspaceDivide"
  /\ ~IterRangeSanityCheck(input_iters)
  /\ division' = <<>>
  /\ pc' = "done"
  /\ UNCHANGED <<inputs, function, rewriter, constraints, results, maps, simplified, divider, inverse>>

(* DetectIterMap that goes on without constraints when the predicate gave *)
(* none                                                                  *)
DetectIterMapEnterIgnoringPredicate ==
  /\ pc = "call"
  /\ entry = "DetectIterMap" \/ IterRangeSanityCheck(input_iters)
  /\ LET cs == MatchBoundConstraints(predicate, IterVars(input_iters), <<>>)
     IN IF ~IterRangeSanityCheck(input_iters)
          THEN /\ pc' = "returned"
               /\ UNCHANGED <<rewriter, constraints>>
          ELSE /\ pc' = "constraints"
               /\ rewriter' = NewRewriter(input_iters, 1, NoRewriter)
               /\ \E f \in SortedOrders(cs) :
                    constraints' = [x \in 1..Len(cs) |-> cs[f[x]]]
  /\ UNCHANGED <<inputs, function, results, maps, outputs>>

(* DetectIterMap up to the construction of the rewriter *)
DetectIterMapEnter ==
  /\ pc = "call"
  /\ entry = "DetectIterMap" \/ IterRangeSanityCheck(input_iters)
  /\ LET cs == MatchBoundConstraints(predicate, IterVars(input_iters), <<>>)
     IN IF ~IterRangeSanityCheck(input_iters) \/ (predicate # BoolTrue /\ cs = <<>>)
          THEN /\ pc' = "returned"
               /\ UNCHANGED <<rewriter, constraints>>
          ELSE /\ pc' = "constraints"
               /\ rewriter' = NewRewriter(input_iters, 1, NoRewriter)
               /\ \E f \in SortedOrders(cs) :
                    constraints' = [x \in 1..Len(cs) |-> cs[f[x]]]
  /\ UNCHANGED <<inputs, function, results, maps, outputs>>

(* Step0.0: one round of the loop over the constraints *)
RewriteConstraint ==
  /\ pc = "constraints"
  /\ constraints # <<>>
  /\ LET c == Head(constraints)
         r == RewriteIterConstraint(c.iter, c.lower_bound, c.upper_bound, rewriter)
     IN /\ rewriter' = r.rw
        /\ pc' = IF r.rw.aborted THEN "aborted"
                 ELSE IF r.rw.unresolved_count_ # 0 THEN "returned"
                 ELSE "constraints"
  /\ constraints' = Tail(constraints)
  /\ UNCHANGED <<inputs, function, results, maps, outputs>>

CheckConstraintsStep ==
  /\ pc = "constraints"
  /\ constraints = <<>>
  /\ pc' = IF CheckConstraints(rewriter) THEN "indices" ELSE "returned"
  /\ UNCHANGED <<inputs, function, rewriter, constraints, results, maps, outputs>>

(* Step0.1: one round of the loop over the indices *)
RewriteIndex ==
  /\ pc = "indices"
  /\ Len(results) < Len(indices)
  /\ LET r == Rewrite(indices[Len(results) + 1], rewriter)
     IN /\ rewriter' = r.rw
        /\ results' = IF r.rw.aborted THEN results ELSE Append(results, r.val)
        /\ pc' = IF r.rw.aborted THEN "aborted"
                 ELSE IF r.rw.unresolved_count_ # 0 THEN "returned"
                 ELSE "indices"
  /\ UNCHANGED <<inputs, function, constraints, maps, outputs>>

(* Step1 and the return of the results *)
CheckMappingStep ==
  /\ pc = "indices"
  /\ Len(results) = Len(indices)
  /\ \E outcome \in CheckMapping(rewriter, results, require_bijective) :
       /\ pc' = IF outcome = "abort" THEN "aborted" ELSE "returned"
       /\ maps' = IF outcome = "ok" THEN results ELSE <<>>
  /\ UNCHANGED <<inputs, function, rewriter, constraints, results, outputs>>

(* IterMapSimplify after DetectIterMap returned *)
IterMapSimplifyReturn ==
  /\ pc = "returned"
  /\ entry = "IterMapSimplify"
  /\ LET res == ConvertAll(rewriter.marks, maps, 1, <<>>)
     IN IF maps = <<>>
          THEN simplified' = indices /\ pc' = "done"
        ELSE IF \E x \in 1..Len(res) : ~defined(res[x])
          THEN simplified' = simplified /\ pc' = "aborted"
        ELSE simplified' = res /\ pc' = "done"
  /\ UNCHANGED <<inputs, function, rewriter, constraints, results, maps, division, divider, inverse>>

(* SubspaceDivide after DetectIterMap returned *)
SubspaceDivideReturn ==
  /\ pc = "returned"
  /\ entry = "SubspaceDivide"
  /\ IF maps = <<>>
       THEN division' = <<>> /\ divider' = divider /\ pc' = "done"
     ELSE LET st == DivideMaps(rewriter.marks, maps, sub_iters)
          IN /\ divider' = st.dv
             /\ division' = st.results
             /\ pc' = IF st.dv.aborted THEN "aborted" ELSE "done"
  /\ UNCHANGED <<inputs, function, rewriter, constraints, results, maps, simplified, inverse>>

(* the outputs given to InverseAffineIterMap: one variable for each index *)
OutputName(x) == IF x = 1 THEN "o1" ELSE IF x = 2 THEN "o2" ELSE "o3"
OutputVars(n) == [x \in 1..n |-> Var(OutputName(x))]

(* InverseAffineIterMap of the maps that DetectIterMap returned *)
InverseAffineIterMapCall ==
  /\ pc = "returned"
  /\ entry = "DetectIterMap"
  /\ maps # <<>>
  /\ inverse' = InverseAffineIterMap(rewriter.marks, maps, OutputVars(Len(maps)))
  /\ pc' = "done"
  /\ UNCHANGED <<inputs, function, rewriter, constraints, results, maps, simplified, division, divider>>

-----------------------------------------------------------------------------
(* The calls: two input iterators i and j, with constant ranges or ranges   *)
(* that mention an iterator, and indices and predicates over the iterators  *)
(* and integer constants.                                                   *)

MaxExtent == 4
MaxCoef == 3
MaxMin == 1

Extents == 1..MaxExtent
Coefs == 2..MaxCoef

VarI == Var("i")
VarJ == Var("j")
IterRange(v, vmin, extent) == [var |-> v, min |-> vmin, extent |-> extent]

NegI == Bin("sub", Imm(0), VarI)
Scaled == {VarI, VarJ} \cup {Bin("mul", v, Imm(c)) : v \in {VarI, VarJ}, c \in Coefs}
FusedSimple == {Bin("add", Bin("mul", VarI, Imm(c)), VarJ) : c \in Coefs}
Fused ==
  FusedSimple \cup
  {Bin("add", Bin("mul", VarI, Imm(c * d)), Bin("mul", VarJ, Imm(d))) : c \in Coefs, d \in Coefs}
Offsets == {Bin("add", v, Imm(1)) : v \in {VarI, VarJ}}
DivMods ==
  {Bin(op, s, Imm(c)) : op \in {"floordiv", "floormod"},
                        s \in {VarI, VarJ, NegI} \cup FusedSimple, c \in Coefs}
Others ==
  {Bin("mul", VarI, VarJ), Bin("sub", VarI, VarI), Bin("sub", VarI, VarJ),
   Bin("add", VarI, VarI), NegI, Bin("floordiv", VarI, VarJ), Bin("floormod", VarI, VarJ),
   Bin("add", Bin("mul", VarI, VarJ), Bin("sub", VarI, VarI))}
Singles == Scaled \cup Fused \cup Offsets \cup DivMods \cup Others
Firsts == {VarI} \cup {Bin(op, VarI, Imm(c)) : op \in {"mul", "floordiv"}, c \in Coefs}
Seconds ==
  {VarJ, Bin("add", VarI, Imm(1))} \cup
  {Bin(op, VarI, Imm(c)) : op \in {"floordiv", "floormod"}, c \in Coefs}
Pairs ==
  {<<a, b>> : a \in Firsts, b \in Seconds} \cup
  {<<Bin("floordiv", s, Imm(c)), Bin("floormod", s, Imm(c))>> :
     s \in FusedSimple \cup {NegI}, c \in Coefs}

IndexLists == {<<e>> : e \in Singles} \cup Pairs

ConstantRanges ==
  {<<IterRange("i", Imm(0), Imm(e1)), IterRange("j", Imm(0), Imm(e2))>> :
     e1 \in Extents, e2 \in Extents}

Call(e, ix, it, pred, bij, sub) ==
  [entry |-> e, indices |-> ix, input_iters |-> it, predicate |-> pred,
   require_bijective |-> bij, sub_iters |-> sub]

(* indices over iterators that start at 0, without a predicate *)
AffineCalls ==
  {Call("DetectIterMap", ix, it, BoolTrue, bij, {}) :
     ix \in IndexLists, it \in ConstantRanges, bij \in BOOLEAN} \cup
  {Call("IterMapSimplify", <<e>>, it, BoolTrue, bij, {}) :
     e \in Singles, it \in ConstantRanges, bij \in BOOLEAN} \cup
  {Call("SubspaceDivide", ix, it, BoolTrue, bij, sub) :
     ix \in {<<e>> : e \in Fused} \cup Pairs, it \in ConstantRanges, bij \in BOOLEAN,
     sub \in SUBSET {"i", "j"}}

(* the entry points of the calls with a predicate or with other ranges *)
EntryCalls ==
  {<<"DetectIterMap", {}>>, <<"IterMapSimplify", {}>>, <<"SubspaceDivide", {}>>,
   <<"SubspaceDivide", {"j"}>>, <<"SubspaceDivide", {"i", "j"}>>}

(* predicates that bound the fused expression i*c + j or the iterator j *)
FusedOf(c) == Bin("add", Bin("mul", VarI, Imm(c)), VarJ)
Predicates(c) ==
  {Bin("lt", s, Imm(b)) : s \in {FusedOf(c), VarJ}, b \in 2..MaxExtent} \cup
  {Bin("and", Bin("le", Imm(lo), s), Bin("lt", s, Imm(b))) :
     s \in {FusedOf(c), VarJ}, b \in 2..MaxExtent, lo \in {1, MaxCoef}}
PredicateIndexLists(c) ==
  {<<FusedOf(c)>>, <<VarI, VarJ>>,
   <<Bin("floordiv", FusedOf(c), Imm(c)), Bin("floormod", FusedOf(c), Imm(c))>>}
PredicateRanges ==
  {<<IterRange("i", Imm(0), Imm(e1)), IterRange("j", Imm(0), Imm(e2))>> :
     e1 \in Extents, e2 \in Coefs}
PredicateCallsOf(c) ==
  {Call(es[1], ix, it, pred, bij, es[2]) :
     es \in EntryCalls, ix \in PredicateIndexLists(c), it \in PredicateRanges,
     pred \in Predicates(c), bij \in BOOLEAN}
PredicateCalls == UNION {PredicateCallsOf(c) : c \in Coefs}

(* iterators that do not start at 0, and ranges that mention an iterator *)
OffsetRanges ==
  {<<IterRange("i", Imm(m), Imm(e1)), IterRange("j", Imm(0), Imm(e2))>> :
     m \in 1..MaxMin, e1 \in Extents, e2 \in Coefs}
DependentRanges ==
  {<<IterRange("i", Imm(0), Imm(e)), IterRange("j", VarI, Imm(e))>> : e \in Extents} \cup
  {<<IterRange("i", Imm(0), Bin("add", VarJ, Imm(1))), IterRange("j", Imm(0), Imm(e))>> :
     e \in Extents}
RangeIndexLists == {<<e>> : e \in Scaled \cup FusedSimple} \cup {<<VarI, VarJ>>}
RangeCalls ==
  {Call(es[1], ix, it, BoolTrue, bij, es[2]) :
     es \in EntryCalls, ix \in RangeIndexLists, it \in OffsetRanges \cup DependentRanges,
     bij \in BOOLEAN}

(* predicates from which MatchBoundConstraints collects no constraint: a    *)
(* conjunction of two conjunctions, and the constant false                  *)
UnusablePredicates ==
  {BoolFalse,
   Bin("and", Bin("and", Bin("lt", VarJ, Imm(MaxExtent)), Bin("le", Imm(0), VarJ)),
              Bin("and", Bin("lt", VarI, Imm(MaxExtent)), Bin("le", Imm(0), VarI)))}
UnusableCalls ==
  {Call(es[1], ix, it, pred, bij, es[2]) :
     es \in EntryCalls, ix \in {<<FusedOf(MaxCoef)>>, <<VarI, VarJ>>}, it \in PredicateRanges,
     pred \in UnusablePredicates, bij \in BOOLEAN}

(* predicates of two constraints on different expressions: on i and on j,  *)
(* whose splits are disjoint; on j and on i*2 + j, whose splits are nested; *)
(* on (i/2)*2 + j and on j*2 + i%2, which share the split of j only         *)
UpperHalf == Bin("add", Bin("mul", Bin("floordiv", VarI, Imm(2)), Imm(2)), VarJ)
LowerHalf == Bin("add", Bin("mul", VarJ, Imm(2)), Bin("floormod", VarI, Imm(2)))
DisjointPredicate == Bin("and", Bin("lt", VarI, Imm(2)), Bin("lt", VarJ, Imm(2)))
NestedPredicate == Bin("and", Bin("lt", VarJ, Imm(2)), Bin("lt", FusedOf(2), Imm(3)))
OverlapPredicate == Bin("and", Bin("lt", UpperHalf, Imm(3)), Bin("lt", LowerHalf, Imm(3)))
(* on (i/2)*2 + j and on (i/2)*2 + i%2, which share the split i/2 only *)
BothHalves == Bin("add", Bin("mul", Bin("floordiv", VarI, Imm(2)), Imm(2)),
                         Bin("floormod", VarI, Imm(2)))
SharedOuterPredicate == Bin("and", Bin("lt", UpperHalf, Imm(3)), Bin("lt", BothHalves, Imm(3)))
PairCalls ==
  {Call(es[1], ix, it, pred, bij, es[2]) :
     es \in EntryCalls,
     ix \in {<<VarI>>, <<VarI, VarJ>>, <<FusedOf(2)>>, <<UpperHalf, LowerHalf>>},
     it \in {r \in PredicateRanges : r[1].extent \in {Imm(2), Imm(MaxExtent)}},
     pred \in {DisjointPredicate, NestedPredicate, OverlapPredicate, SharedOuterPredicate},
     bij \in BOOLEAN}

Calls == AffineCalls \cup PredicateCalls \cup RangeCalls \cup UnusableCalls \cup PairCalls

Init ==
  /\ \E c \in Calls :
       /\ entry = c.entry
       /\ indices = c.indices
       /\ input_iters = c.input_iters
       /\ predicate = c.predicate
       /\ require_bijective = c.require_bijective
       /\ sub_iters = c.sub_iters
  /\ pc = "call"
  /\ rewriter = NoRewriter
  /\ constraints = <<>>
  /\ results = <<>>
  /\ maps = <<>>
  /\ simplified = <<>>
  /\ division = <<>>
  /\ divider = NewDivider(<<>>)
  /\ inverse = NoInverse
  /\ call = NoCall
  /\ ret = NoReturn

Next ==
  \/ IterMapSimplifyInsane
  \/ SubspaceDivideInsane
  \/ DetectIterMapEnter
  \/ RewriteConstraint
  \/ CheckConstraintsStep
  \/ RewriteIndex
  \/ CheckMappingStep
  \/ IterMapSimplifyReturn
  \/ SubspaceDivideReturn
  \/ InverseAffineIterMapCall

Spec == Init /\ [][Next]_vars

-----------------------------------------------------------------------------
(* The calls of single member functions of the rewriter: SplitFloorDivConst *)
(* and SplitFloorModConst of a split of a mark by a constant, and           *)
(* TryNormalizeSplits of the splits collected for a mark                    *)

MaxSourceExtent == 12
MaxDivisor == 6
MaxScale == 4

Divides(a, b) == b % a = 0

(* the splits of a mark of extent S that floordiv and floormod by constants *)
(* produce: lower_factor * extent divides S, and a split of extent 1 is the *)
(* quotient of a split by its extent, so its lower_factor is not 1          *)
SplitsOf(S, scales) ==
  {IterSplitExpr(1, Imm(le[1]), Imm(le[2]), Imm(sc)) :
     le \in {x \in (1..S) \X (1..S) : Divides(x[1] * x[2], S) /\ x[1] * x[2] > 1},
     sc \in scales}

Scales == {-1} \cup (1..MaxScale)
Divisors == {-2} \cup (1..MaxDivisor)

SplitCalls ==
  UNION {
    {[fn |-> f, mark |-> IterMark(VarI, Imm(S)), lhs |-> sp, rhs |-> Imm(c)] :
       f \in {"SplitFloorDivConst", "SplitFloorModConst"}, sp \in SplitsOf(S, Scales),
       c \in Divisors} : S \in {MaxSourceExtent - 4, MaxSourceExtent}}

NormalizeCalls ==
  UNION {
    {[fn |-> "TryNormalizeSplits", mark |-> IterMark(VarI, Imm(S)), splits |-> sps,
      require_bijective |-> bij] :
       sps \in {<<a>> : a \in SplitsOf(S, {1})} \cup
               {<<a, b>> : a \in SplitsOf(S, {1}), b \in SplitsOf(S, {1})},
       bij \in BOOLEAN} : S \in {MaxSourceExtent - 4, MaxSourceExtent}}

(* the predicates of the calls of MatchBoundConstraints: one comparison or  *)
(* the conjunction of two, of operands that mention the iterators i and j,  *)
(* the variable n that is no iterator, and constants                        *)
VarN == Var("n")
Operands ==
  {VarI, Imm(2), VarN, Bin("add", VarI, Imm(1)), Bin("add", VarI, VarN),
   Bin("sub", VarJ, VarN), Bin("add", Bin("mul", VarI, Imm(2)), VarJ),
   Bin("sub", Imm(3), VarJ)}
Comparisons == {Bin(op, a, b) : op \in {"lt", "le", "gt", "ge"}, a \in Operands, b \in Operands}
BoundCalls ==
  {[fn |-> "MatchBoundConstraints", pred |-> p, vars |-> {"i", "j"}] :
     p \in Comparisons \cup
           {Bin("and", Bin(op, VarI, Imm(2)), c) :
              op \in {"lt", "ge"}, c \in {d \in Comparisons : d.a = VarJ}}}

(* the calls of InverseAffineIterMap on one sum of the splits of i and j    *)
(* with any scales: the scales form a fused pattern when the scale of i is  *)
(* the scale of j times the extent of j                                     *)
InverseCalls ==
  {[fn |-> "InverseAffineIterMap",
    marks |-> <<IterMark(VarI, Imm(2)), IterMark(VarJ, Imm(e))>>,
    iter_map |-> <<IterSumExpr(<<IterSplitExpr(1, Imm(1), Imm(2), Imm(s1)),
                                 IterSplitExpr(2, Imm(1), Imm(e), Imm(s2))>>, Imm(0))>>] :
     e \in 2..3, s1 \in 1..MaxDivisor, s2 \in 1..2}

FunctionCalls == SplitCalls \cup NormalizeCalls \cup BoundCalls \cup InverseCalls

FunctionInit ==
  /\ call \in FunctionCalls
  /\ ret = NoReturn
  /\ entry = "none"
  /\ indices = <<>>
  /\ input_iters = <<>>
  /\ predicate = BoolTrue
  /\ require_bijective = FALSE
  /\ sub_iters = {}
  /\ pc = "function"
  /\ rewriter = NoRewriter
  /\ constraints = <<>>
  /\ results = <<>>
  /\ maps = <<>>
  /\ simplified = <<>>
  /\ division = <<>>
  /\ divider = NewDivider(<<>>)
  /\ inverse = NoInverse

detection == <<rewriter, constraints, results, maps>>

CallSplitFloorDivConst ==
  /\ pc = "function"
  /\ call.fn = "SplitFloorDivConst"
  /\ ret' = SplitFloorDivConst(call.lhs, call.rhs, Bin("floordiv", call.lhs, call.rhs),
                               NoRewriter)
  /\ pc' = "done"
  /\ UNCHANGED <<inputs, call, detection, outputs>>

CallSplitFloorModConst ==
  /\ pc = "function"
  /\ call.fn = "SplitFloorModConst"
  /\ ret' = SplitFloorModConst(call.lhs, call.rhs, Bin("floormod", call.lhs, call.rhs),
                               NoRewriter)
  /\ pc' = "done"
  /\ UNCHANGED <<inputs, call, detection, outputs>>

CallTryNormalizeSplits ==
  /\ pc = "function"
  /\ call.fn = "TryNormalizeSplits"
  /\ ret' = TryNormalizeSplits(call.mark, call.splits, call.require_bijective)
  /\ pc' = "done"
  /\ UNCHANGED <<inputs, call, detection, outputs>>

CallMatchBoundConstraints ==
  /\ pc = "function"
  /\ call.fn = "MatchBoundConstraints"
  /\ ret' = [constraints |-> MatchBoundConstraints(call.pred, call.vars, <<>>)]
  /\ pc' = "done"
  /\ UNCHANGED <<inputs, call, detection, outputs>>

CallInverseAffineIterMap ==
  /\ pc = "function"
  /\ call.fn = "InverseAffineIterMap"
  /\ ret' = InverseAffineIterMap(call.marks, call.iter_map, OutputVars(Len(call.iter_map)))
  /\ pc' = "done"
  /\ UNCHANGED <<inputs, call, detection, outputs>>

FunctionNext ==
  \/ CallInverseAffineIterMap
  \/ CallSplitFloorDivConst
  \/ CallSplitFloorModConst
  \/ CallTryNormalizeSplits
  \/ CallMatchBoundConstraints

FunctionSpec == FunctionInit /\ [][FunctionNext]_vars

-----------------------------------------------------------------------------
(* The assignments of the input iterators inside their ranges that satisfy  *)
(* the predicate, and the values of expressions under them                  *)

RangeValues(r) == r.min.val..(r.min.val + r.extent.val - 1)

Envs ==
  IF ~IterRangeSanityCheck(input_iters) THEN {}
  ELSE {env \in [IterVars(input_iters) ->
                   UNION {RangeValues(input_iters[x]) : x \in 1..Len(input_iters)}] :
          /\ \A x \in 1..Len(input_iters) :
               env[input_iters[x].var] \in RangeValues(input_iters[x])
          /\ Eval(predicate, env) = <<TRUE>>}

(* the value of the iterator-map expression e, lowered over the arena marks *)
ValueOf(marks, e, env) ==
  LET lowered == NormalizeIterMapToExpr(marks, e)
  IN IF defined(lowered) THEN Eval(lowered, env) ELSE <<>>

(* C1: whenever detect_iter_map returned a non-empty result, lowering each  *)
(* returned sum gives the value of the corresponding original index, under  *)
(* every assignment of the iterators inside their ranges that satisfies the *)
(* predicate                                                                *)
RoundTripEquivalence ==
  maps # <<>> =>
    \A env \in Envs : \A x \in 1..Len(maps) :
      ValueOf(rewriter.marks, maps[x], env) = Eval(indices[x], env)


(* the splits collected for each mark from the returned sums *)
ReturnedSplits == Collect(rewriter.marks, EmptyCollector, maps, 1).mark2splits_

(* C2: whenever detect_iter_map succeeded, any two splits (L1,E1), (L2,E2)  *)
(* collected for the same mark from the returned sums satisfy L1*E1 <= L2   *)
(* or L2*E2 <= L1; and detection of [x, x+1], x having more than one        *)
(* value, returned the empty list                                           *)
SplitsDisjoint ==
  /\ maps # <<>> =>
       \A m \in DOMAIN ReturnedSplits :
         LET splits == ReturnedSplits[m]
         IN \A x \in 1..Len(splits) : \A y \in 1..Len(splits) :
              x # y =>
                \/ splits[x].lower_factor.val * splits[x].extent.val <= splits[y].lower_factor.val
                \/ splits[y].lower_factor.val * splits[y].extent.val <= splits[x].lower_factor.val
  /\ ( /\ pc = "returned"
       /\ indices = <<VarI, Bin("add", VarI, Imm(1))>>
       /\ IterRangeSanityCheck(input_iters)
       /\ ~is_one(input_iters[1].extent) ) => maps = <<>>

(* a mark with two disjoint splits in a returned result *)
SplitsDisjointWitness ==
  /\ maps # <<>>
  /\ \E m \in DOMAIN ReturnedSplits : Len(ReturnedSplits[m]) >= 2

RECURSIVE ProductOfExtents(_, _)
ProductOfExtents(splits, p) ==
  IF p > Len(splits) THEN 1 ELSE splits[p].extent.val * ProductOfExtents(splits, p + 1)

(* C3: with require_bijective, whenever detect_iter_map succeeded, the      *)
(* splits of every mark reachable from the returned sums can be ordered so  *)
(* that the first has lower_factor 1, each next lower_factor is the         *)
(* previous lower_factor times the previous extent, and the product of the  *)
(* extents is the extent of the mark                                        *)
CoverageChain ==
  (maps # <<>> /\ require_bijective) =>
    \A m \in DOMAIN ReturnedSplits :
      LET splits == ReturnedSplits[m]
          n == Len(splits)
      IN /\ \E f \in [1..n -> 1..n] :
              /\ IsPermutation(f, n)
              /\ splits[f[1]].lower_factor = Imm(1)
              /\ \A x \in 1..(n - 1) :
                   splits[f[x + 1]].lower_factor.val =
                     splits[f[x]].lower_factor.val * splits[f[x]].extent.val
         /\ ProductOfExtents(splits, 1) = rewriter.marks[m].extent.val

(* a bijective result in which a mark is covered by a chain of two splits *)
CoverageChainWitness ==
  /\ maps # <<>>
  /\ require_bijective
  /\ \E m \in DOMAIN ReturnedSplits : Len(ReturnedSplits[m]) >= 2


(* the assignment env extended with the outputs: output x has the value of  *)
(* index x                                                                  *)
WithOutputs(env) ==
  [n \in IterVars(input_iters) \cup {OutputName(x) : x \in 1..Len(indices)} |->
     IF n \in IterVars(input_iters) THEN env[n]
     ELSE Eval(indices[CHOOSE x \in 1..Len(indices) : OutputName(x) = n], env)[1]]

(* C5: the inverse of a bijective result of detect_iter_map has one entry   *)
(* for each input iterator, and with each output set to the value of its    *)
(* index the expression of each iterator evaluates to the value of the      *)
(* iterator                                                                 *)
InverseRoundTrip ==
  (pc = "done" /\ entry = "DetectIterMap" /\ require_bijective /\ maps # <<>>) =>
    /\ ~inverse.aborted
    /\ DOMAIN inverse.inverse_ = IterVars(input_iters)
    /\ \A env \in Envs : \A v \in IterVars(input_iters) :
         Eval(inverse.inverse_[v], WithOutputs(env)) = <<env[v]>>


(* C6: for every (outer, inner) pair that subspace_divide returned for a    *)
(* binding, under every assignment inside the ranges that satisfies the     *)
(* predicate and the returned outer and inner predicates,                   *)
(* value(outer) * extent(inner) + value(inner) is the value of the binding  *)
SubspaceComposition ==
  (pc = "done" /\ entry = "SubspaceDivide" /\ division # <<>>) =>
    \A env \in Envs :
      ( /\ Eval(Last(division)[1].extent, env) = <<TRUE>>
        /\ Eval(Last(division)[2].extent, env) = <<TRUE>> ) =>
        \A x \in 1..Len(indices) :
          LET outer == ValueOf(divider.marks, division[x][1].source, env)
              inner == ValueOf(divider.marks, division[x][2].source, env)
              extent == Eval(division[x][2].extent, env)
          IN /\ outer # <<>> /\ inner # <<>> /\ extent # <<>>
             /\ <<outer[1] * extent[1] + inner[1]>> = Eval(indices[x], env)

(* index x mentions the input iterator v *)
Appears(v) == \E x \in 1..Len(indices) : UsesVar(indices[x], {v})

FailureMonotonicity ==
  [][ /\ rewriter'.unresolved_count_ >= rewriter.unresolved_count_
      /\ rewriter'.unresolved_count_ # 0 => (pc' \in {"returned", "done"} /\ maps' = <<>>)
      /\ maps' # <<>> => Len(maps') = Len(indices) ]_vars

(* C8: iter_map_simplify returns; it returns the original indices when      *)
(* detection returned the empty list, and otherwise the lowering of each    *)
(* returned sum, in the order of the indices                                *)
SimplifyReturnsIndices ==
  entry = "IterMapSimplify" =>
    /\ pc # "aborted"
    /\ pc = "done" =>
         IF maps = <<>> THEN simplified = indices
         ELSE /\ Len(simplified) = Len(indices)
              /\ \A x \in 1..Len(indices) :
                   simplified[x] = NormalizeIterMapToExpr(rewriter.marks, maps[x])

(* C9: subspace_divide returns; it returns the empty list when detection or *)
(* a division failed, and otherwise one pair of marks for each binding      *)
(* followed by one entry with the outer and the inner predicates            *)
DivisionShape ==
  entry = "SubspaceDivide" =>
    /\ pc # "aborted"
    /\ pc = "done" =>
         IF maps = <<>> \/ divider.unresolved_count_ # 0 THEN division = <<>>
         ELSE /\ Len(division) = Len(indices) + 1
              /\ Last(division)[1].extent = divider.outer_preds_
              /\ Last(division)[2].extent = divider.inner_preds_

(* the min or the extent of the range of an input iterator mentions an      *)
(* input iterator                                                           *)
RangeMentionsIterator ==
  \E x \in 1..Len(input_iters) :
    \/ UsesVar(input_iters[x].min, IterVars(input_iters))
    \/ UsesVar(input_iters[x].extent, IterVars(input_iters))

(* C10: when a range mentions an input iterator, detect_iter_map and        *)
(* subspace_divide build no rewriter, rewrite no constraint and no index,   *)
(* divide nothing and return the empty list                                 *)
InsaneRangesReturnEmpty ==
  (RangeMentionsIterator /\ entry \in {"DetectIterMap", "SubspaceDivide"}) =>
    /\ pc \in {"call", "returned", "done"}
    /\ rewriter = NoRewriter
    /\ constraints = <<>>
    /\ results = <<>>
    /\ maps = <<>>
    /\ divider = NewDivider(<<>>)
    /\ division = <<>>

(* subspace_divide returned for ranges that mention an input iterator *)
InsaneRangesWitness ==
  /\ RangeMentionsIterator
  /\ entry = "SubspaceDivide"
  /\ pc = "done"

(* the record that the fuser memoised for the flattened form f before a     *)
(* constraint was rewritten: a form not yet fused has offset 0 and the      *)
(* product of the extents of its splits                                     *)
OldOffset(f) ==
  IF f \in DOMAIN rewriter.sum_fuse_map_ THEN rewriter.sum_fuse_map_[f].offset.val ELSE 0
OldExtent(f) ==
  IF f \in DOMAIN rewriter.sum_fuse_map_
    THEN rewriter.marks[rewriter.sum_fuse_map_[f].mark].extent.val
    ELSE ProductOfExtents(f.args, 1)

MaxInt(a, b) == IF a > b THEN a ELSE b
MinInt(a, b) == IF a < b THEN a ELSE b

(* the rewriting of the constraint lo <= e < hi at the head of constraints  *)
(* gave the record of e's flattened form the offset max(lo, old offset) and *)
(* the extent min(hi, old offset + old extent) - offset                     *)
RecordTightened ==
  ( /\ pc = "constraints" /\ constraints # <<>> /\ pc' = "constraints"
    /\ Len(rewriter'.constrained_iters_flattened_) > Len(rewriter.constrained_iters_flattened_) ) =>
    LET c == Head(constraints)
        f == Last(rewriter'.constrained_iters_flattened_)
        iter_min == IF defined(c.lower_bound) THEN MaxInt(c.lower_bound.val, OldOffset(f))
                    ELSE OldOffset(f)
        iter_max == IF defined(c.upper_bound)
                      THEN MinInt(c.upper_bound.val, OldOffset(f) + OldExtent(f))
                    ELSE OldOffset(f) + OldExtent(f)
        rec == rewriter'.sum_fuse_map_[f]
    IN /\ rec.offset = Imm(iter_min)
       /\ rewriter'.marks[rec.mark].extent = Imm(iter_max - iter_min)

(* a rewritten index that is, or whose fused mark contains, the mark of a   *)
(* constrained form uses the extent of the record as the multiplier of the  *)
(* next scale and has the base offset * scale; the extent of the fused mark *)
(* is the product of the extents unless a constraint on the fused form      *)
(* itself tightened it                                                      *)
FusionUsesRecord ==
  (pc \in {"indices", "returned", "done"} /\ rewriter.unresolved_count_ = 0) =>
    \A x \in 1..Len(results) : \A y \in 1..Len(rewriter.constrained_iters_flattened_) :
      LET r == results[x]
          rec == rewriter.sum_fuse_map_[rewriter.constrained_iters_flattened_[y]]
          sp == r.args[1]
          M == rewriter.marks[sp.source]
      IN (Len(r.args) = 1 /\ indices[x].k \notin {"floordiv", "floormod"}) =>
           /\ sp.source = rec.mark => r.base = Imm(rec.offset.val * sp.scale.val)
           /\ M.source.k = "sum" =>
                \A p \in 1..Len(M.source.args) :
                  M.source.args[p].source = rec.mark =>
                    /\ M.source.args[p].extent = rewriter.marks[rec.mark].extent
                    /\ (\A z \in 1..Len(rewriter.constrained_iters_flattened_) :
                          rewriter.sum_fuse_map_[rewriter.constrained_iters_flattened_[z]].mark
                            # sp.source) =>
                         M.extent = Imm(ProductOfExtents(M.source.args, 1))
                    /\ r.base = Imm(rec.offset.val * M.source.args[p].scale.val * sp.scale.val)

(* C11: when a constraint lo <= e < hi is rewritten and e fuses to one      *)
(* scale-1 split, the memoised record of e's flattened form gets the offset *)
(* max(lo, old offset) and the extent min(hi, old offset + old extent) -    *)
(* offset, and every later fusion of an index containing e's terms uses     *)
(* that extent as the multiplier of the next expected scale and adds        *)
(* offset * scale to the base                                               *)
ConstraintTightensRecord == [][RecordTightened]_vars /\ []FusionUsesRecord

(* 1 <= j < 3 with j in [0,3) and the index i*2 + j: the mark of j has      *)
(* extent 2 and offset 1, the fused mark extent 2 * extent(i), the returned *)
(* base is 1                                                                *)
ConstraintTightensRecordWitness ==
  /\ maps # <<>>
  /\ indices = <<FusedOf(2)>>
  /\ predicate = Bin("and", Bin("le", Imm(1), VarJ), Bin("lt", VarJ, Imm(3)))
  /\ input_iters = <<IterRange("i", Imm(0), Imm(4)), IterRange("j", Imm(0), Imm(3))>>
  /\ maps[1].base = Imm(1)
  /\ rewriter.marks[maps[1].args[1].source].extent = Imm(8)
  /\ \E f \in DOMAIN rewriter.sum_fuse_map_ :
       /\ rewriter.sum_fuse_map_[f].offset = Imm(1)
       /\ rewriter.marks[rewriter.sum_fuse_map_[f].mark].extent = Imm(2)

(* C12: detect([y/c, y%c]) with y in [0, 2c) in bijective mode succeeds and *)
(* returns two sums of one split each; both splits reference the same mark, *)
(* the mark of y with extent 2c, with lower_factor c and lower_factor 1     *)
DivModShareMarkOfInput ==
  \A c \in Coefs :
    ( /\ pc \in {"returned", "done"}
      /\ entry = "DetectIterMap"
      /\ indices = <<Bin("floordiv", VarI, Imm(c)), Bin("floormod", VarI, Imm(c))>>
      /\ input_iters = <<IterRange("i", Imm(0), Imm(2 * c)), IterRange("j", Imm(0), Imm(1))>>
      /\ predicate = BoolTrue
      /\ require_bijective ) =>
      /\ Len(maps) = 2
      /\ Len(maps[1].args) = 1
      /\ Len(maps[2].args) = 1
      /\ maps[1].args[1].source = maps[2].args[1].source
      /\ rewriter.marks[maps[1].args[1].source] = IterMark(VarI, Imm(2 * c))
      /\ maps[1].args[1].lower_factor = Imm(c)
      /\ maps[2].args[1].lower_factor = Imm(1)

(* the walk over the splits sps not yet taken, from the expected            *)
(* lower_factor on: every remaining lower_factor is a multiple of the       *)
(* expected one, a split of the smallest remaining lower_factor is taken    *)
(* next, and the last lower_factor * extent divides the extent S            *)
RECURSIVE WalkAccepts(_, _, _, _)
WalkAccepts(sps, remaining, expected, S) ==
  IF remaining = {} THEN Divides(expected, S)
  ELSE /\ \A x \in remaining : Divides(expected, sps[x].lower_factor.val)
       /\ \E x \in remaining :
            /\ \A y \in remaining : sps[x].lower_factor.val <= sps[y].lower_factor.val
            /\ WalkAccepts(sps, remaining \ {x},
                           sps[x].lower_factor.val * sps[x].extent.val, S)

(* C13: with require_bijective = false the splits of a mark are accepted    *)
(* exactly when, walking from lower_factor 1 upward, every remaining        *)
(* split's lower_factor is divisible by the expected lower_factor and the   *)
(* final lower_factor * extent divides the extent of the mark; otherwise    *)
(* the empty array is returned                                              *)
GapsAcceptedWhenDivisible ==
  (pc = "done" /\ call.fn = "TryNormalizeSplits" /\ ~call.require_bijective) =>
    /\ ret.status \in {"ok", "fail"}
    /\ ret.status = "ok" <=>
         WalkAccepts(call.splits, 1..Len(call.splits), 1, call.mark.extent.val)
    /\ ret.status = "ok" => Len(ret.iters) = Len(call.splits)
    /\ ret.status = "fail" => ret.iters = <<>>

(* the product of the extents of the input iterators inside (inner = TRUE)  *)
(* or outside sub_iters                                                     *)
RECURSIVE ExtentOfSide(_, _)
ExtentOfSide(inner, p) ==
  IF p > Len(input_iters) THEN 1
  ELSE (IF (input_iters[p].var \in sub_iters) = inner THEN input_iters[p].extent.val ELSE 1)
         * ExtentOfSide(inner, p + 1)

(* the inner iterator i is the outer term of the binding i*c + j *)
Interleaved == "i" \in sub_iters /\ "j" \notin sub_iters

FuseInput ==
  ToIterSumExpr(DirectMutate(indices[1], NewRewriter(input_iters, 1, NoRewriter)).val)

SmallestScale(args) ==
  CHOOSE s \in {args[x].scale.val : x \in 1..Len(args)} :
    \A x \in 1..Len(args) : s <= args[x].scale.val

(* C15: when TryFuseIters succeeds on a sum of terms x*s + base with no     *)
(* constraint involved, it returns a sum with exactly one split whose scale *)
(* is the smallest scale s0, whose mark y has the product of the extents of *)
(* the terms as its extent, and whose base is the input base; under every   *)
(* assignment the value of the source of y is in [0, extent) and the value  *)
(* of the input is that value * s0 + base                                   *)
FusedSumDenotesInput ==
  ( /\ pc \in {"indices", "returned", "done"}
    /\ predicate = BoolTrue
    /\ IterRangeSanityCheck(input_iters)
    /\ Len(indices) = 1 /\ Len(results) = 1
    /\ indices[1] \in Scaled \cup Fused \cup Offsets
    /\ rewriter.unresolved_count_ = 0
    /\ Len(FuseInput.args) >= 1 ) =>
    LET r == results[1]
        y == rewriter.marks[r.args[1].source]
        s0 == SmallestScale(FuseInput.args)
    IN /\ Len(r.args) = 1
       /\ r.args[1].scale = Imm(s0)
       /\ y.extent = Imm(ProductOfExtents(FuseInput.args, 1))
       /\ r.base = FuseInput.base
       /\ \A env \in Envs :
            LET vy == ValueOf(rewriter.marks, y.source, env)
            IN /\ vy # <<>>
               /\ vy[1] \in 0..(y.extent.val - 1)
               /\ Eval(indices[1], env) = <<vy[1] * s0 + r.base.val>>

(* the marks that the fuser minted: their source is a sum *)
FusedMarks == {m \in 1..Len(rewriter.marks) : rewriter.marks[m].source.k = "sum"}

(* the marks that the table of flattened forms holds *)
MemoisedMarks == {rewriter.sum_fuse_map_[f].mark : f \in DOMAIN rewriter.sum_fuse_map_}

(* the floordiv and the floormod of one composite expression were rewritten *)
(* to splits of the same mark                                               *)
DivModShareMark ==
  ( /\ Len(indices) = 2 /\ Len(results) = 2
    /\ indices[1].k = "floordiv" /\ indices[2].k = "floormod"
    /\ indices[1].a = indices[2].a /\ indices[1].a \in FusedSimple
    /\ \A x \in 1..Len(input_iters) : input_iters[x].extent # Imm(1)
    /\ rewriter.unresolved_count_ = 0 /\ pc # "aborted" ) =>
    LET d == rewriter.marks[results[1].args[1].source].source.args[1]
        m == rewriter.marks[results[2].args[1].source].source.args[1]
    IN /\ d.source = m.source
       /\ d.source \in MemoisedMarks

(* C16, as stated: within one detection at most one mark is minted for each *)
(* flattened form, so every mark the fuser minted is the mark memoised for  *)
(* its flattened form, and a floordiv and a floormod of the same composite  *)
(* expression produce splits of one shared mark                             *)
OneMarkPerFlattenedForm ==
  /\ FusedMarks \subseteq MemoisedMarks
  /\ DivModShareMark

(* C16, amended: the same as long as no constraint was rewritten; the       *)
(* rewriting of a constraint replaces the memoised mark of its flattened    *)
(* form by a copy with the tightened extent                                 *)
OneMarkPerUnconstrainedForm ==
  /\ rewriter.constrained_iters_flattened_ = <<>> => FusedMarks \subseteq MemoisedMarks
  /\ Cardinality(FusedMarks \ MemoisedMarks) <= Len(rewriter.constrained_iters_flattened_)
  /\ DivModShareMark

(* (i*2 + j) / 2 and (i*2 + j) % 2 were rewritten without a predicate *)
OneMarkWitness ==
  /\ pc = "returned" /\ maps # <<>>
  /\ predicate = BoolTrue
  /\ indices = <<Bin("floordiv", FusedOf(2), Imm(2)), Bin("floormod", FusedOf(2), Imm(2))>>
  /\ \A x \in 1..2 : input_iters[x].extent = Imm(2)
  /\ Cardinality(FusedMarks) = 3

(* the value that a split denotes for the value s of its source:            *)
(* floormod(floordiv(s, lower_factor), extent) * scale                      *)
SplitValue(sp, s) ==
  FloorModInt(FloorDivInt(s, sp.lower_factor.val), sp.extent.val) * sp.scale.val

(* the value of what a call returned: a split or a constant *)
ReturnedValue(e, s) == IF e.k = "split" THEN SplitValue(e, s) ELSE e.val

(* the call failed: it returned the original expression and counted one     *)
(* unresolved expression                                                    *)
CallFailed == ret.rw.unresolved_count_ = 1 /\ ret.val.k \notin {"split", "int"}

CallSucceeded == ret.rw.unresolved_count_ = 0 /\ ~ret.rw.aborted

(* the divisor that is left when the scale of the split was divided out *)
RestOfDivisor == IF call.lhs.scale.val = 1 THEN call.rhs.val
                 ELSE FloorDivInt(call.rhs.val, call.lhs.scale.val)

(* C17, the cases: floordiv(split, c) returns the split if c = 1, the split *)
(* with scale / c if scale # 1 and c divides scale, fails if scale # 1 and  *)
(* neither divides the other, and otherwise, with c / scale for c and 1 for *)
(* the scale, returns the split with lower_factor L * c and extent E / c if *)
(* c divides E and fails if not                                             *)
FloorDivCases ==
  (pc = "done" /\ call.fn = "SplitFloorDivConst") =>
    LET lhs == call.lhs
        c == call.rhs.val
        scale == lhs.scale.val
    IN IF c = 1 THEN CallSucceeded /\ ret.val = lhs
       ELSE IF scale # 1 /\ FloorModInt(scale, c) = 0
         THEN CallSucceeded /\ ret.val = [lhs EXCEPT !.scale = Imm(FloorDivInt(scale, c))]
       ELSE IF scale # 1 /\ FloorModInt(c, scale) # 0 THEN CallFailed
       ELSE IF FloorModInt(lhs.extent.val, RestOfDivisor) = 0
         THEN /\ CallSucceeded
              /\ ret.val = [lhs EXCEPT !.scale = Imm(1),
                                       !.lower_factor = Imm(lhs.lower_factor.val * RestOfDivisor),
                                       !.extent = Imm(FloorDivInt(lhs.extent.val, RestOfDivisor))]
       ELSE CallFailed

(* C17, the value: in every case that does not fail the returned split      *)
(* denotes floordiv(value of the split, c) for every value of the source    *)
FloorDivValue ==
  (pc = "done" /\ call.fn = "SplitFloorDivConst" /\ CallSucceeded) =>
    \A s \in 0..(call.mark.extent.val - 1) :
       ReturnedValue(ret.val, s) = FloorDivInt(SplitValue(call.lhs, s), call.rhs.val)

(* C17: the cases of floordiv(split, c) and the value of its result *)
SplitFloorDivConstCorrect == FloorDivCases /\ FloorDivValue

(* the cases of floormod(split, c): 0 if c = 1 or if scale # 1 and c        *)
(* divides scale, a failure if scale # 1 and neither divides the other, and *)
(* otherwise, with c / scale for c, the split with extent c and the same    *)
(* lower_factor if c divides E, a failure if not                            *)
FloorModCases ==
  (pc = "done" /\ call.fn = "SplitFloorModConst") =>
    LET lhs == call.lhs
        c == call.rhs.val
        scale == lhs.scale.val
    IN IF c = 1 \/ (scale # 1 /\ FloorModInt(scale, c) = 0)
         THEN CallSucceeded /\ ret.val = Imm(0)
       ELSE IF scale # 1 /\ FloorModInt(c, scale) # 0 THEN CallFailed
       ELSE IF FloorModInt(lhs.extent.val, RestOfDivisor) = 0
         THEN /\ CallSucceeded
              /\ ret.val = [lhs EXCEPT !.extent = Imm(RestOfDivisor)]
              /\ ret.val.lower_factor = lhs.lower_factor
       ELSE CallFailed

(* in every case that does not fail the returned value is                   *)
(* floormod(value of the split, c) for every value of the source            *)
FloorModValue ==
  (pc = "done" /\ call.fn = "SplitFloorModConst" /\ CallSucceeded) =>
    \A s \in 0..(call.mark.extent.val - 1) :
       ReturnedValue(ret.val, s) = FloorModInt(SplitValue(call.lhs, s), call.rhs.val)

(* C18: floormod(split, c) takes the cases of the specification and, when   *)
(* it does not fail, returns the value floormod(value of the split, c)      *)
SplitFloorModConstCorrect == FloorModCases /\ FloorModValue

(* floormod(split, c) has narrowed a split with a scale: extent 6, scale 2  *)
(* and c = 4 give the split with extent 2 and scale 2                       *)
SplitFloorModConstWitness ==
  /\ pc = "done" /\ call.fn = "SplitFloorModConst"
  /\ call.lhs.scale = Imm(2) /\ call.rhs = Imm(4) /\ call.lhs.extent = Imm(6)
  /\ call.lhs.lower_factor = Imm(2)
  /\ CallSucceeded
  /\ ret.val.k = "split" /\ ret.val.extent = Imm(2) /\ ret.val.scale = Imm(2)

SplitsOfSum(e) == {e.args[y] : y \in 1..Len(e.args)}

(* the splits that the rewriter holds: those of the rewritten indices and   *)
(* those of the sources of the marks                                        *)
ProducedSplits ==
  UNION {SplitsOfSum(results[x]) : x \in {z \in 1..Len(results) : results[z].k = "sum"}}
  \cup
  UNION {SplitsOfSum(rewriter.marks[m].source) : m \in FusedMarks}

(* lower_factor >= 1, extent >= 1, and lower_factor * extent divides the    *)
(* extent of the source mark                                                *)
WellFormedSplit(sp) ==
  (IsImm(sp.lower_factor) /\ IsImm(sp.extent) /\ IsImm(rewriter.marks[sp.source].extent)) =>
    /\ sp.lower_factor.val >= 1
    /\ sp.extent.val >= 1
    /\ FloorModInt(rewriter.marks[sp.source].extent.val,
                   sp.lower_factor.val * sp.extent.val) = 0

(* C19: every IterSplit that the rewriter produces from add, sub, mul,      *)
(* floordiv and floormod of input iterators has lower_factor >= 1,          *)
(* extent >= 1 and lower_factor * extent dividing the extent of its source  *)
(* mark                                                                     *)
SplitsWellFormed == \A sp \in ProducedSplits : WellFormedSplit(sp)

(* the marks that take part in fusion: the marks the fuser minted and the   *)
(* marks of the splits they are fused from                                  *)
MarksInFusion ==
  FusedMarks \cup
  {sp.source : sp \in UNION {SplitsOfSum(rewriter.marks[m].source) : m \in FusedMarks}}

(* C20: in every reachable state of a detection the extent of every mark is *)
(* non-negative, also that of a mark tightened by a constraint to           *)
(* iter_max - iter_min, and no mark that takes part in fusion has extent 0  *)
MarkExtentsNonNegative ==
  /\ \A m \in 1..Len(rewriter.marks) :
        IsImm(rewriter.marks[m].extent) => rewriter.marks[m].extent.val >= 0
  /\ \A m \in MarksInFusion : ~is_zero(rewriter.marks[m].extent)

(* the offset and the extent memoised for the flattened form f *)
RecordOf(rw, f) ==
  <<rw.sum_fuse_map_[f].offset, rw.marks[rw.sum_fuse_map_[f].mark].extent>>

(* the flattened forms that a constraint has tightened *)
TightenedForms(rw) ==
  {rw.constrained_iters_flattened_[y] : y \in 1..Len(rw.constrained_iters_flattened_)}

(* a step of the detection: the rewriting or the checking of the            *)
(* constraints or of the indices                                            *)
DetectionStep == pc \in {"constraints", "indices"} /\ pc' # "aborted"

(* no step changes the record of a form that was tightened before *)
TightenedRecordsKept ==
  DetectionStep =>
    \A f \in TightenedForms(rewriter) :
       /\ f \in DOMAIN rewriter'.sum_fuse_map_
       /\ RecordOf(rewriter', f) = RecordOf(rewriter, f)

(* C21, as stated: the record of a fused mark is tightened at most once in  *)
(* a detection; after the first tightening of a flattened form no later     *)
(* constraint, a second bound on the same expression included, and no index *)
(* rewrite changes its extent or offset                                     *)
TightenedOnce == [][TightenedRecordsKept]_vars

(* the rewriting of a constraint changes no record but that of the          *)
(* constraint's own flattened form, and no other step changes a record      *)
OnlyItsConstraintTightens ==
  DetectionStep =>
    \A f \in DOMAIN rewriter.sum_fuse_map_ :
       \/ /\ f \in DOMAIN rewriter'.sum_fuse_map_
          /\ RecordOf(rewriter', f) = RecordOf(rewriter, f)
       \/ /\ pc = "constraints" /\ constraints # <<>>
          /\ Len(rewriter'.constrained_iters_flattened_) =
               Len(rewriter.constrained_iters_flattened_) + 1
          /\ f = Last(rewriter'.constrained_iters_flattened_)

(* C21, amended: each rewritten constraint tightens the record of its own   *)
(* flattened form, so a form with a lower and an upper bound is tightened   *)
(* twice; no constraint changes the record of another form and no index     *)
(* rewrite changes any record                                               *)
TightenedByItsConstraints == [][OnlyItsConstraintTightens]_vars

(* 1 <= i*2 + j < 3 over i in [0,2), j in [0,2): the form of i*2 + j was    *)
(* tightened by both bounds to offset 1 and extent 2, and the index was     *)
(* rewritten after that                                                     *)
TightenedTwiceWitness ==
  /\ maps # <<>>
  /\ indices = <<FusedOf(2)>>
  /\ predicate = Bin("and", Bin("le", Imm(1), FusedOf(2)), Bin("lt", FusedOf(2), Imm(3)))
  /\ Len(rewriter.constrained_iters_flattened_) = 2
  /\ rewriter.constrained_iters_flattened_[1] = rewriter.constrained_iters_flattened_[2]
  /\ RecordOf(rewriter, rewriter.constrained_iters_flattened_[1]) = <<Imm(1), Imm(2)>>

(* the indices that multiply two iterators or divide by an iterator *)
IteratorProducts == {Bin(op, VarI, VarJ) : op \in {"mul", "floordiv", "floormod"}}

(* both operands of the index are rewritten to canonical forms: an iterator *)
(* of extent 1 is rewritten to the constant of its minimum                  *)
OperandsDependOnIterators == \A x \in 1..Len(input_iters) : ~is_one(input_iters[x].extent)

(* C22: an index that multiplies two iterator-dependent canonical forms, or *)
(* floor-divides or floor-mods by one, is rejected: the unresolved counter  *)
(* is raised, the original node is returned, and the detection returns      *)
(* empty                                                                    *)
IteratorProductsRejected ==
  \A x \in 1..Len(results) :
    (indices[x] \in IteratorProducts /\ OperandsDependOnIterators /\ pc # "aborted") =>
      /\ rewriter.unresolved_count_ > 0
      /\ results[x] = IterSumExpr(<<>>, indices[x])
      /\ pc \in {"returned", "done"}
      /\ maps = <<>>

(* floormod(i, j) over i in [0,2), j in [0,2) was rejected by detect_iter_map *)
IteratorProductsRejectedWitness ==
  /\ entry = "DetectIterMap"
  /\ indices = <<Bin("floormod", VarI, VarJ)>>
  /\ \A x \in 1..Len(input_iters) : input_iters[x].extent = Imm(2)
  /\ pc = "returned"
  /\ rewriter.unresolved_count_ = 1
  /\ Len(results) = 1
  /\ maps = <<>>

(* the values of i, j and n over which a predicate is evaluated *)
BoundEnvs == [{"i", "j", "n"} -> -1..2]

(* lower <= iter when lower is defined, and iter < upper when upper is *)
BoundHolds(c, env) ==
  /\ defined(c.lower_bound) => Eval(c.lower_bound, env)[1] <= Eval(c.iter, env)[1]
  /\ defined(c.upper_bound) => Eval(c.iter, env)[1] < Eval(c.upper_bound, env)[1]

NumComparisons(pred) == IF pred.k = "and" THEN 2 ELSE 1

(* C23: for each comparison a < b, a <= b, a > b, a >= b that the predicate *)
(* splitter extracts, the tuple (iter, lower, upper) it records holds for   *)
(* exactly the iterator assignments for which the comparison holds, with    *)
(* the iterator side on the left, on the right, and on both sides           *)
BoundsEquivalentToComparisons ==
  (pc = "done" /\ call.fn = "MatchBoundConstraints") =>
    /\ Len(ret.constraints) = NumComparisons(call.pred)
    /\ \A env \in BoundEnvs :
         Eval(call.pred, env)[1] <=>
           \A x \in 1..Len(ret.constraints) : BoundHolds(ret.constraints[x], env)

(* i + n >= j - n, with iterators on both sides, was split into the         *)
(* iterator part i - j and the lower bound of the rest                      *)
BoundsEquivalentWitness ==
  /\ pc = "done" /\ call.fn = "MatchBoundConstraints"
  /\ call.pred = Bin("ge", Bin("add", VarI, VarN), Bin("sub", VarJ, VarN))
  /\ Len(ret.constraints) = 1
  /\ ret.constraints[1].iter = Bin("sub", VarI, VarJ)
  /\ defined(ret.constraints[1].lower_bound)
  /\ ~defined(ret.constraints[1].upper_bound)

(* the predicate is not the literal true and the predicate splitter returns *)
(* the empty list                                                           *)
NoUsableConstraints ==
  predicate # BoolTrue /\ MatchBoundConstraints(predicate, IterVars(input_iters), <<>>) = <<>>

(* the indices i and j over iterators of more than one value, which         *)
(* detect_iter_map rewrites to two canonical forms when predicate = true    *)
PlainIterators ==
  /\ indices = <<VarI, VarJ>>
  /\ \A x \in 1..Len(input_iters) :
       is_zero(input_iters[x].min) /\ IsImm(input_iters[x].extent) /\ ~is_one(input_iters[x].extent)

(* C24, as stated: when the predicate is not the literal true and the       *)
(* predicate splitter returns the empty list, detect_iter_map rewrites the  *)
(* indices as it does with predicate = true and returns their canonical     *)
(* forms                                                                    *)
UnusablePredicateIgnored ==
  ( /\ pc \in {"returned", "done"}
    /\ PlainIterators
    /\ predicate = BoolTrue \/ NoUsableConstraints ) =>
    /\ Len(maps) = 2
    /\ maps = results

(* C24, amended: when the predicate is not the literal true and the         *)
(* predicate splitter returns the empty list, detect_iter_map returns empty *)
(* without constructing a rewriter or rewriting an index                    *)
UnusablePredicateFails ==
  NoUsableConstraints =>
    /\ rewriter = NoRewriter /\ results = <<>> /\ maps = <<>>
    /\ pc \in {"call", "returned", "done"}
    /\ pc = "done" => /\ entry = "IterMapSimplify" => simplified = indices
                      /\ entry = "SubspaceDivide" => division = <<>>

(* detect_iter_map([i, j]) with a conjunction of two conjunctions as the    *)
(* predicate has returned empty                                             *)
UnusablePredicateWitness ==
  /\ entry = "DetectIterMap"
  /\ PlainIterators
  /\ NoUsableConstraints /\ predicate.k = "and"
  /\ pc = "returned"
  /\ maps = <<>>

(* the splits of a flattened form, without their scales *)
SplitSet(f) ==
  {<<f.args[x].source, f.args[x].lower_factor, f.args[x].extent>> : x \in 1..Len(f.args)}

DisjointOrNested(A, B) == A \cap B = {} \/ A \subseteq B \/ B \subseteq A

(* C25: detect_iter_map returns empty unless, for every pair of predicate   *)
(* constraints, the sets of splits of their flattened forms are disjoint or *)
(* one contains the other; the constraints on (i/2)*2 + j and j*2 + i%2,    *)
(* which share the split of j only, and those on (i/2)*2 + j and            *)
(* (i/2)*2 + i%2, which share the split i/2 only, are rejected              *)
ConstraintsDisjointOrNested ==
  /\ maps # <<>> =>
       \A f, g \in TightenedForms(rewriter) : DisjointOrNested(SplitSet(f), SplitSet(g))
  /\ ( /\ predicate \in {OverlapPredicate, SharedOuterPredicate}
       /\ pc \in {"returned", "done"} ) => maps = <<>>

(* C26: every IterMark that the rewriter creates has as its source a plain  *)
(* input iterator variable or a canonical sum, also the marks of the input  *)
(* iterators whose range minimum is not 0                                   *)
MarkSourcesVarOrSum ==
  \A m \in 1..Len(rewriter.marks) :
    \/ rewriter.marks[m].source.k = "var" /\ rewriter.marks[m].source.name \in IterVars(input_iters)
    \/ rewriter.marks[m].source.k = "sum"

(* the scales of the args of the sum do not form a fused pattern: the scale *)
(* of an arg is not the scale of the next inner arg times its extent        *)
NotFusePattern(sum) ==
  \E x \in 1..(Len(sum.args) - 1) :
    sum.args[x].scale.val # sum.args[x + 1].scale.val * sum.args[x + 1].extent.val

(* C27: when inverse_affine_iter_map meets a sum of several args whose      *)
(* scales do not form a fused pattern, the call does not abort: it returns  *)
(* an empty result                                                          *)
InverseFailureNotFatal ==
  ( /\ pc = "done" /\ call.fn = "InverseAffineIterMap"
    /\ NotFusePattern(call.iter_map[1]) ) =>
    /\ ~ret.aborted
    /\ ret.inverse_ = <<>>


(* C28: in every reachable state of a detection, each flattened form of the   *)
(* constraint list is a key of sum_fuse_map_, and the source sum of the mark   *)
(* stored under every key of sum_fuse_map_ is a key of flattened_map_ that     *)
(* maps back to that key, also after a lower-bound tightening re-keyed it.     *)
TablesConsistent ==
  /\ \A y \in 1..Len(rewriter.constrained_iters_flattened_) :
       rewriter.constrained_iters_flattened_[y] \in DOMAIN rewriter.sum_fuse_map_
  /\ \A f \in DOMAIN rewriter.sum_fuse_map_ :
       /\ rewriter.marks[rewriter.sum_fuse_map_[f].mark].source \in DOMAIN rewriter.flattened_map_
       /\ rewriter.flattened_map_[rewriter.marks[rewriter.sum_fuse_map_[f].mark].source] = f

(* a lower-bound tightening has re-keyed a structured form and a later step    *)
(* of the detection has used the tables                                        *)
RekeyedTablesWitness ==
  /\ pc \in {"returned", "done"}
  /\ ~rewriter.aborted
  /\ \E f \in DOMAIN rewriter.sum_fuse_map_ :
       /\ ~is_zero(rewriter.sum_fuse_map_[f].offset)
       /\ ~is_zero(rewriter.marks[rewriter.sum_fuse_map_[f].mark].source.base)
       /\ \E y \in 1..Len(rewriter.constrained_iters_flattened_) :
            rewriter.constrained_iters_flattened_[y] = f


(* add/sub merging of the index leaves a split of scale 0 in the sum *)
MergedToZeroScale(e, rw) ==
  /\ DirectMutate(e, rw).val.k = "sum"
  /\ \E x \in 1..Len(DirectMutate(e, rw).val.args) :
       DirectMutate(e, rw).val.args[x].scale = Imm(0)

(* C29: try_fuse_iters never divides by a base scale of 0: when add/sub       *)
(* merging has left a split of scale 0 in the sum of an index (i - i), the      *)
(* rewrite of that index reports a failure and does not abort.                  *)
ZeroScaleFusionFails ==
  [][ ( /\ pc = "indices"
        /\ Len(results) < Len(indices)
        /\ MergedToZeroScale(indices[Len(results) + 1], rewriter) ) =>
        /\ ~rewriter'.aborted
        /\ rewriter'.unresolved_count_ > rewriter.unresolved_count_ ]_vars


(* C30: every sum that DetectIterMap returns is a constant (no args) or one    *)
(* split over a fused mark plus a base, and the returned list holds one sum    *)
(* per index in index order: the sum at position x reads only iterators that  *)
(* index x reads.                                                              *)
ReturnedSumsCanonical ==
  maps # <<>> =>
    /\ Len(maps) = Len(indices)
    /\ \A x \in 1..Len(maps) :
         /\ maps[x].k = "sum"
         /\ Len(maps[x].args) <= 1
         /\ Len(maps[x].args) = 1 =>
              rewriter.marks[maps[x].args[1].source].source.k = "sum"
         /\ \A v \in {"i", "j"} :
              UsesVar(NormalizeIterMapToExpr(rewriter.marks, maps[x]), {v}) =>
                UsesVar(indices[x], {v})

(* a detection of two indices has returned two sums, each one split over a     *)
(* fused mark of its own                                                       *)
ReturnedSumsWitness ==
  /\ entry = "DetectIterMap"
  /\ pc = "returned"
  /\ Len(maps) = 2
  /\ Len(maps[1].args) = 1
  /\ Len(maps[2].args) = 1
  /\ maps[1].args[1].source # maps[2].args[1].source
  /\ rewriter.marks[maps[1].args[1].source].source.k = "sum"
  /\ rewriter.marks[maps[2].args[1].source].source.k = "sum"

====
